---------------------------- MODULE Spec2Model ----------------------------
(***************************************************************************)
(* A model of the weather-app backend: the /cities, /weather,              *)
(* /weather/timeline handlers of every variant kept in the repository      *)
(* (the two programs concatenated in src/server.js and the five files      *)
(* src/unnamed/part_000 .. part_004), the TTL cache they share per         *)
(* process, and the pure helpers they call.                                *)
(*                                                                         *)
(* Strings are sequences of one-character strings, so that toLowerCase,    *)
(* startsWith, includes and split(' ') are computed, not assumed.          *)
(***************************************************************************)
EXTENDS Integers, Sequences, FiniteSets, TLC

(***************************************************************************)
(* Bounds of the model.                                                    *)
(***************************************************************************)
MaxStrLen == 3

(***************************************************************************)
(* Strings.                                                                *)
(***************************************************************************)
Alphabet == {"a", "b", "A", " "}

RECURSIVE StringsUpTo(_)
StringsUpTo(n) ==
    IF n = 0 THEN {<<>>}
    ELSE LET shorter == StringsUpTo(n - 1)
         IN  shorter \cup {Append(s, c) : s \in {x \in shorter : Len(x) = n - 1}, c \in Alphabet}

LowerChar(c) ==
    CASE c = "A" -> "a"
      [] c = "B" -> "b"
      [] c = "P" -> "p"
      [] c = "R" -> "r"
      [] c = "U" -> "u"
      [] c = "S" -> "s"
      [] c = "K" -> "k"
      [] c = "C" -> "c"
      [] c = "F" -> "f"
      [] OTHER   -> c

toLowerCase(s) == [i \in 1..Len(s) |-> LowerChar(s[i])]

startsWith(s, p) == Len(p) <= Len(s) /\ SubSeq(s, 1, Len(p)) = p

includes(s, p) == \E i \in 0..(Len(s) - Len(p)) : SubSeq(s, i + 1, i + Len(p)) = p

\* s.split(' '): one word per separating space, empty words kept.
RECURSIVE split(_)
split(s) ==
    IF \A i \in 1..Len(s) : s[i] # " " THEN <<s>>
    ELSE LET k == CHOOSE i \in 1..Len(s) : s[i] = " " /\ \A j \in 1..(i - 1) : s[j] # " "
         IN  <<SubSeq(s, 1, k - 1)>> \o split(SubSeq(s, k + 1, Len(s)))

\* JavaScript truthiness of a string: the empty string is falsy.
Truthy(s) == Len(s) > 0

(***************************************************************************)
(* Match Quality Scorer.                                                   *)
(***************************************************************************)
\* A scorer that tries the rule of the first word before the rule of the
\* whole prefix.
firstWordBeforePrefix(city, term) ==
    LET cityLower   == toLowerCase(city)
        searchLower == toLowerCase(term)
        searchWords == split(searchLower)
        cityWords   == split(cityLower)
    IN  IF cityLower = searchLower THEN 100
        ELSE IF Len(searchWords) = 1 /\ Len(cityWords) > 0
                /\ startsWith(cityWords[1], searchWords[1]) THEN 90
        ELSE IF startsWith(cityLower, searchLower) THEN 95
        ELSE IF includes(cityLower, searchLower) THEN 70
        ELSE 0

calculateMatchQuality(city, term) ==
    LET cityLower   == toLowerCase(city)
        searchLower == toLowerCase(term)
        searchWords == split(searchLower)
        cityWords   == split(cityLower)
        firstWord   == Len(searchWords) > 0 /\ Len(cityWords) > 0
                       /\ startsWith(cityWords[1], searchWords[1])
        allWordsMatch ==
            \A index \in 1..Len(searchWords) :
                /\ index <= Len(cityWords)
                /\ Truthy(cityWords[index])
                /\ startsWith(cityWords[index], searchWords[index])
    IN  IF cityLower = searchLower THEN 100
        ELSE IF startsWith(cityLower, searchLower) THEN 95
        ELSE IF firstWord /\ Len(searchWords) = 1 THEN 90
        ELSE IF firstWord /\ allWordsMatch THEN 85
        ELSE IF includes(cityLower, searchLower) THEN 70
        ELSE 0

(***************************************************************************)
(* Country Normalizer (the 6-alias table of the first program of           *)
(* server.js and of part_002).                                             *)
(***************************************************************************)
usa           == <<"u", "s", "a">>
uk            == <<"u", "k">>
unitedStates  == <<"u", "n", "i", "t", "e", "d", " ", "s", "t", "a", "t", "e", "s">>
unitedKingdom == <<"u", "n", "i", "t", "e", "d", " ", "k", "i", "n", "g", "d", "o", "m">>
unitedStatesOfAmerica == unitedStates \o <<" ", "o", "f", " ", "a", "m", "e", "r", "i", "c", "a">>
usaDotted     == <<"u", ".", "s", ".", "a", ".">>
usDotted      == <<"u", ".", "s", ".">>
greatBritain  == <<"g", "r", "e", "a", "t", " ", "b", "r", "i", "t", "a", "i", "n">>

countryMappings ==
    [k \in {unitedStatesOfAmerica, usa, usaDotted, usDotted, uk, greatBritain} |->
        IF k \in {uk, greatBritain} THEN unitedKingdom ELSE unitedStates]

england == <<"e", "n", "g", "l", "a", "n", "d">>
britain == <<"b", "r", "i", "t", "a", "i", "n">>

\* The 8-alias table of the second program of server.js.
countryMappingsSecond ==
    [k \in DOMAIN countryMappings \cup {england, britain} |->
        IF k \in DOMAIN countryMappings THEN countryMappings[k] ELSE unitedKingdom]

\* What an object literal answers under a lowercase key that is none of
\* its own: the members it inherits, which are no strings.
Inherited ==
    (<<"c", "o", "n", "s", "t", "r", "u", "c", "t", "o", "r">> :>
         [function |-> "Object"])
    @@ (<<"_", "_", "p", "r", "o", "t", "o", "_", "_">> :>
         [object |-> "Object.prototype"])

\* countryMappings[country.toLowerCase()] || country
normalizeWith(mappings, country) ==
    LET key == toLowerCase(country)
    IN  IF key \in DOMAIN mappings THEN mappings[key]
        ELSE IF key \in DOMAIN Inherited THEN Inherited[key]
        ELSE country

normalizeCountryName(country) == normalizeWith(countryMappings, country)

(***************************************************************************)
(* Geocoder results and the /cities pipelines.                             *)
(*                                                                         *)
(* A result carries the components the handlers read; an absent component  *)
(* is the empty string (both are falsy).  state stands for                 *)
(* components.state || components.province || components.region.           *)
(***************************************************************************)
PageSize == 10

None == <<>>

FirstTruthy(fields) ==
    IF \E i \in 1..Len(fields) : Truthy(fields[i])
    THEN fields[CHOOSE i \in 1..Len(fields) :
                    Truthy(fields[i]) /\ \A j \in 1..(i - 1) : ~Truthy(fields[j])]
    ELSE None

slice(s, n) == SubSeq(s, 1, IF Len(s) < n THEN Len(s) ELSE n)

Map(s, f(_)) == [i \in 1..Len(s) |-> f(s[i])]

Filter(s, keep(_)) == SelectSeq(s, keep)

\* The comparators handed to Array.prototype.sort, by handler.
byScore(a, b) == b.score - a.score

isExact(c, term) == toLowerCase(c.city) = toLowerCase(term)

\* part_004: exact matches first, then the higher confidence.
byExactThenConfidence(term, a, b) ==
    IF isExact(a, term) # isExact(b, term)
    THEN (IF isExact(b, term) THEN 1 ELSE -1)
    ELSE b.confidence - a.confidence

Abs(n) == IF n < 0 THEN -n ELSE n

\* part_003: exact match, capital, confidence apart by more than 2, population.
byExactCapitalConfidencePopulation(term, a, b) ==
    IF isExact(a, term) # isExact(b, term)
    THEN (IF isExact(b, term) THEN 1 ELSE -1)
    ELSE IF a.isCapital # b.isCapital
    THEN (IF a.isCapital THEN -1 ELSE 1)
    ELSE IF Abs(a.confidence - b.confidence) > 2
    THEN b.confidence - a.confidence
    ELSE IF a.population # 0 /\ b.population # 0
    THEN b.population - a.population
    ELSE 0

\* A comparator that leaves every pair as it is.
byNothing(a, b) == 0

\* the timeline: by year
byYear(a, b) == a.year - b.year

compare(how, term, a, b) ==
    CASE how = "byScore" -> byScore(a, b)
      [] how = "byYear"  -> byYear(a, b)
      [] how = "part_003" -> byExactCapitalConfidencePopulation(term, a, b)
      [] how = "part_004" -> byExactThenConfidence(term, a, b)

\* Array.prototype.sort: a stable insertion sort under the comparator.
InsertInto(acc, x, how, term) ==
    LET p == CHOOSE q \in 1..(Len(acc) + 1) :
                 /\ \A j \in q..Len(acc) : compare(how, term, acc[j], x) > 0
                 /\ (q > 1 => compare(how, term, acc[q - 1], x) <= 0)
    IN  SubSeq(acc, 1, p - 1) \o <<x>> \o SubSeq(acc, p, Len(acc))

RECURSIVE SortFrom(_, _, _, _, _)
SortFrom(s, i, acc, how, term) ==
    IF i > Len(s) THEN acc
    ELSE SortFrom(s, i + 1, InsertInto(acc, s[i], how, term), how, term)

sort(s, how, term) == SortFrom(s, 1, <<>>, how, term)

formatCity(c) ==
    [city |-> c.city, state |-> c.state, country |-> c.country,
     latitude |-> c.latitude, longitude |-> c.longitude]

\* The key of the de-duplicating Map.
dedupKey(c) ==
    toLowerCase(c.city) \o <<"-">> \o toLowerCase(c.state) \o <<"-">> \o toLowerCase(c.country)

\* Array.from(new Map(entries).values()): a key keeps the position of its
\* first entry and the value of its last entry.
dedupByMap(cities) ==
    LET idx   == [i \in 1..Len(cities) |-> i]
        IsFirst(i) == \A j \in 1..(i - 1) : dedupKey(cities[j]) # dedupKey(cities[i])
        firsts == SelectSeq(idx, IsFirst)
        LastOf(i) == CHOOSE j \in i..Len(cities) :
                        /\ dedupKey(cities[j]) = dedupKey(cities[i])
                        /\ \A k \in (j + 1)..Len(cities) : dedupKey(cities[k]) # dedupKey(cities[i])
    IN  [n \in 1..Len(firsts) |-> cities[LastOf(firsts[n])]]

\* server.js (both programs) and part_002: score, filter, sort, de-duplicate, cut.
scoredCandidate(result, term) ==
    LET nm == FirstTruthy(<<result.city, result.town, result.municipality,
                            result.village, result.county>>)
    IN  [city |-> nm, state |-> result.state,
         country |-> normalizeCountryName(result.country),
         latitude |-> result.lat, longitude |-> result.lng,
         score |-> IF Truthy(nm) THEN calculateMatchQuality(nm, term) ELSE 0,
         isNull |-> ~Truthy(nm)]

\* The pipeline's first steps with a filter that drops only the results
\* without a city name.
scoredSortedUnfiltered(results, term) ==
    LET Cand(r) == scoredCandidate(r, term)
        Keep(c) == ~c.isNull
    IN  sort(Filter(Map(results, Cand), Keep), "byScore", term)

scoredSorted(results, term) ==
    LET Cand(r) == scoredCandidate(r, term)
        Keep(c) == ~c.isNull /\ c.score > 0
    IN  sort(Filter(Map(results, Cand), Keep), "byScore", term)

scoredPipeline(results, term) ==
    Map(slice(dedupByMap(scoredSorted(results, term)), PageSize), formatCity)

\* part_000: weighted score in thousandths (0.4 name, 0.3 population,
\* 0.2 confidence, 0.2 major city, 0.1 capital).
Min(a, b) == IF a < b THEN a ELSE b

weightedCandidate(result, term) ==
    LET nm == FirstTruthy(<<result.city, result.town, result.municipality,
                            result.village, result.suburb>>)
        nameMatchScore ==
            IF toLowerCase(nm) = toLowerCase(term) THEN 1000
            ELSE IF includes(toLowerCase(nm), toLowerCase(term)) THEN 800 ELSE 0
        popScore == IF result.population # 0
                    THEN (Min(result.population, 1000000) * 1000) \div 1000000 ELSE 0
        isMajorCity == \/ result.cityType = "major"
                       \/ result.capital
                       \/ result.population > 1000000
    IN  [city |-> nm, state |-> result.state, country |-> result.country,
         latitude |-> result.lat, longitude |-> result.lng,
         score |-> (nameMatchScore * 4) \div 10 + (popScore * 3) \div 10
                   + result.confidence * 20
                   + (IF isMajorCity THEN 200 ELSE 0)
                   + (IF result.capital THEN 100 ELSE 0),
         isNull |-> ~Truthy(nm)]

weightedPipeline(results, term) ==
    LET Cand(r) == weightedCandidate(r, term)
        Keep(c) == /\ ~c.isNull
                   /\ Truthy(c.city)
                   /\ Truthy(c.country)
                   /\ includes(toLowerCase(c.city), toLowerCase(term))
    IN  Map(slice(sort(Filter(Map(results, Cand), Keep), "byScore", term), PageSize),
            formatCity)

\* part_000 and part_004: the broader search taken when the first one
\* yields no city; its results are neither sorted nor cut.
broadCandidate(result) ==
    [city |-> FirstTruthy(<<result.city, result.town, result.municipality>>),
     state |-> result.state, country |-> result.country,
     latitude |-> result.lat, longitude |-> result.lng]

broadPipeline(results) ==
    LET Keep(c) == Truthy(c.city) /\ Truthy(c.country)
    IN  Filter(Map(results, broadCandidate), Keep)

\* part_003.
capitalCandidate(result) ==
    LET nm == FirstTruthy(<<result.city, result.town, result.municipality, result.county>>)
    IN  [city |-> nm, state |-> result.state, country |-> result.country,
         latitude |-> result.lat, longitude |-> result.lng,
         confidence |-> result.confidence, isCapital |-> result.capital,
         type |-> result.type, population |-> result.population,
         isNull |-> ~Truthy(nm)]

capitalPipeline(results, term) ==
    LET Keep(c) == /\ ~c.isNull
                   /\ includes(toLowerCase(c.city), toLowerCase(term))
                   /\ Truthy(c.country)
    IN  Map(slice(sort(Filter(Map(results, capitalCandidate), Keep), "part_003", term),
                  PageSize),
            formatCity)

\* part_004: the entries keep confidence and type (no projection).
confidenceCandidate(result) ==
    LET nm == FirstTruthy(<<result.city, result.town, result.municipality>>)
    IN  [city |-> nm, state |-> result.state, country |-> result.country,
         latitude |-> result.lat, longitude |-> result.lng,
         confidence |-> result.confidence, type |-> result.type]

confidencePipeline(results, term) ==
    LET Keep(c) == Truthy(c.city) /\ includes(toLowerCase(c.city), toLowerCase(term))
    IN  slice(sort(Filter(Map(results, confidenceCandidate), Keep), "part_004", term),
              PageSize)

\* part_001: rows of the spreadsheet after its header row.
formatCityData(row) ==
    [city |-> row.city, state |-> row.state, country |-> row.country,
     latitude |-> row.lat, longitude |-> row.lng]

sheetPipeline(rows, lowerTerm) ==
    LET Keep(row) == Truthy(row.city) /\ includes(toLowerCase(row.city), lowerTerm)
    IN  slice(Map(Filter(rows, Keep), formatCityData), PageSize)

(***************************************************************************)
(* The variants of the program.                                            *)
(***************************************************************************)
Scored   == {"server_1", "server_2", "part_002"}   \* score, sort, de-duplicate
Fallback == {"part_000", "part_004"}               \* broader search on no result
Variants == Scored \cup Fallback \cup {"part_001", "part_003"}

\* stdTTL of the variant's NodeCache, in seconds.
stdTTL(v) == IF v = "server_2" THEN 3600 ELSE 1800

(***************************************************************************)
(* The TTL cache (NodeCache): key -> [v: value, t: time of expiry].        *)
(***************************************************************************)
\* An entry that is never taken for expired.
ExpiredNever(c, k, t) == FALSE

Expired(c, k, t) == c[k].t # 0 /\ c[k].t < t

\* A lookup that ignores the time of expiry.
cacheHasEver(c, k, t) == k \in DOMAIN c

\* A lookup that never finds an entry.
cacheHasNever(c, k, t) == FALSE

cacheHas(c, k, t) == k \in DOMAIN c /\ ~Expired(c, k, t)

\* get() deletes the entry it finds expired.
cacheAfterGet(c, k, t) ==
    IF k \in DOMAIN c /\ Expired(c, k, t)
    THEN [x \in DOMAIN c \ {k} |-> c[x]]
    ELSE c

\* A set that leaves an entry that is there as it is.
cacheSetIfAbsent(c, k, value, ttl, t) ==
    IF k \in DOMAIN c THEN c ELSE (k :> [v |-> value, t |-> t + ttl]) @@ c

cacheSet(c, k, value, ttl, t) == (k :> [v |-> value, t |-> t + ttl]) @@ c

(***************************************************************************)
(* Inputs: search terms, geocoder results, upstream errors.                *)
(***************************************************************************)
MaxResults == 11
MaxTicks   == 3

pa == <<"p", "a">>
Pa == <<"P", "a">>
FR == <<"F", "R">>

Terms == {<<>>, pa, Pa}

GeoBase ==
    [city |-> None, town |-> None, municipality |-> None, village |-> None,
     county |-> None, suburb |-> None, state |-> None, country |-> None,
     lat |-> 0, lng |-> 0, confidence |-> 5, capital |-> FALSE,
     population |-> 0, cityType |-> "", type |-> "city"]

City(nm, st, co, at) ==
    [GeoBase EXCEPT !.city = nm, !.state = st, !.country = co, !.lat = at, !.lng = at]

\* Two results with the same lowercase (city, state, country) and
\* different coordinates.
Twins == <<City(Pa, <<"A">>, FR, 1), City(pa, <<"a">>, toLowerCase(FR), 2)>>

\* n results for n different states of one country.
Many(n) == [i \in 1..n |-> City(Pa, [j \in 1..i |-> "b"], FR, i)]

GeoReplies == {<<>>, Twins, Many(MaxResults)}

UpstreamErrors == {"timeout of 5000ms exceeded", "Request failed with status code 500"}

(***************************************************************************)
(* State.                                                                  *)
(***************************************************************************)
VARIABLES
    \* the scorer applied to one pair of strings
    cityName, searchTerm, quality,
    \* the trait mapper applied to one answer of the weather upstream
    forecast, horoscope,
    \* the country normalizer applied to one name
    countryName, normalized,
    \* the process: which variant runs, the offset of its time zone from UTC
    \* (seconds), its clock (seconds), its cache
    variant, zone, now, ticks, cache,
    \* the /cities requests in flight
    creq,
    \* history: per lowercased term, the last payload a /cities request
    \* stored and the first payload a /cities request answered
    lastStored, firstAnswer,
    \* one run of a /cities pipeline: its inputs and its output
    rankTerm, rankResults, rankOut,
    \* the /weather requests, and the cache of shareable results of the
    \* first program of server.js
    wreq, resultsCache,
    \* history: per shareable id, the payload last stored under it and the
    \* time it was stored; and the last response of GET /result/:id
    issued, resultData,
    \* the /weather/timeline requests in flight
    treq

scoreVars == <<cityName, searchTerm, quality>>
pureVars  == <<forecast, horoscope, countryName, normalized>>
procVars  == <<variant, zone, now, ticks, cache>>
cityVars  == <<creq, lastStored, firstAnswer>>
rankVars  == <<rankTerm, rankResults, rankOut>>
weatherVars  == <<wreq, resultsCache, issued, resultData>>
timelineVars == <<treq>>
vars == <<cityName, searchTerm, quality, forecast, horoscope, countryName, normalized,
          variant, zone, now, ticks, cache,
          creq, lastStored, firstAnswer, rankTerm, rankResults, rankOut,
          wreq, resultsCache, issued, resultData, treq>>

NotComputed == 0 - 1

Requests == {"r1", "r2"}

Empty == <<>>     \* the function with the empty domain

Idle == [pc |-> "idle", term |-> <<>>, calls |-> 0, sets |-> 0, status |-> 0,
         body |-> <<>>, failMsg |-> ""]

NotMade == [made |-> FALSE]

PureIdle ==
    /\ forecast = Empty /\ horoscope = NotMade
    /\ countryName = <<>> /\ normalized = NotMade

ScoreIdle ==
    /\ cityName = <<>> /\ searchTerm = <<>> /\ quality = NotComputed
    /\ PureIdle

NotRanked == [ranked |-> FALSE]

RankIdle == rankTerm = <<>> /\ rankResults = <<>> /\ rankOut = NotRanked

CitiesIdle ==
    /\ creq = [r \in Requests |-> Idle]
    /\ lastStored = Empty
    /\ firstAnswer = Empty

NoQuery == [latitude |-> "", longitude |-> "", date |-> ""]

\* A /weather request is handled once.  Its query, its position, what it
\* has done so far
\* (cache reads, cache writes, upstream calls), the locals of the handler
\* that live across an await, and its response.
WeatherIdleRequest ==
    [pc |-> "idle", q |-> NoQuery, reads |-> 0, sets |-> 0, calls |-> <<>>,
     got |-> "", started |-> 0, current |-> Empty, pending |-> <<>>,
     historical |-> <<>>, status |-> 0, body |-> Empty]

\* No GET /result/:id has been answered.
NoResult ==
    [pc |-> "idle", id |-> Empty, status |-> 0, body |-> Empty,
     known |-> FALSE, age |-> 0, stored |-> Empty]

WeatherIdle ==
    /\ wreq = [r \in Requests |-> WeatherIdleRequest]
    /\ resultsCache = Empty
    /\ issued = Empty
    /\ resultData = NoResult

NoTimelineQuery ==
    [latitude |-> "", longitude |-> "", month |-> "", day |-> "",
     startYear |-> "", endYear |-> ""]

TimelineIdleRequest ==
    [pc |-> "idle", q |-> NoTimelineQuery, calls |-> 0, inFlight |-> {},
     lookups |-> <<>>, timelineData |-> <<>>, status |-> 0, json |-> "",
     body |-> Empty]

TimelineIdle == treq = [r \in Requests |-> TimelineIdleRequest]

(***************************************************************************)
(* The scorer on every pair of strings up to MaxStrLen.                    *)
(***************************************************************************)
ScoreInit ==
    /\ cityName \in StringsUpTo(MaxStrLen)
    /\ searchTerm \in StringsUpTo(MaxStrLen)
    /\ quality = NotComputed
    /\ PureIdle
    /\ variant = "server_1" /\ zone = 0 /\ now = 0 /\ ticks = 0 /\ cache = Empty
    /\ CitiesIdle
    /\ RankIdle
    /\ WeatherIdle
    /\ TimelineIdle

Score ==
    /\ quality = NotComputed
    /\ quality' = calculateMatchQuality(cityName, searchTerm)
    /\ UNCHANGED <<cityName, searchTerm, pureVars, procVars, cityVars, rankVars, weatherVars, timelineVars>>

ScoreNext == Score

SpecScore == ScoreInit /\ [][ScoreNext]_vars

(***************************************************************************)
(* GET /cities.                                                            *)
(***************************************************************************)
trim(s) ==
    IF \A i \in 1..Len(s) : s[i] = " " THEN <<>>
    ELSE LET a == CHOOSE i \in 1..Len(s) : s[i] # " " /\ \A j \in 1..(i - 1) : s[j] = " "
             b == CHOOSE i \in 1..Len(s) : s[i] # " " /\ \A j \in (i + 1)..Len(s) : s[j] = " "
         IN  SubSeq(s, a, b)

\* req.query.term as the handler uses it.
citiesTerm(v, term) ==
    IF v \in Scored THEN trim(term)
    ELSE IF v = "part_001" THEN toLowerCase(term)
    ELSE term

citiesTermOk(v, term) ==
    IF v \in Scored THEN Len(trim(term)) >= 1 ELSE Len(term) >= 2

\* The key without the lowercasing.
citiesCacheKeyAsTyped(v, term) ==
    IF v = "part_001"
    THEN <<"cities_", "\"">> \o citiesTerm(v, term) \o <<"\"">>
    ELSE <<"cities_">> \o citiesTerm(v, term)

citiesCacheKey(v, term) ==
    IF v = "part_001"
    THEN <<"cities_", "\"">> \o citiesTerm(v, term) \o <<"\"">>
    ELSE <<"cities_">> \o toLowerCase(citiesTerm(v, term))

citiesBadRequest(v) ==
    IF v \in Scored
    THEN [errors |-> "Search term must not be empty"]
    ELSE [error |-> "Search term must be at least 2 characters"]

\* The catch block without the upstream's message.
citiesFailureGeneric(msg) ==
    [error |-> "Failed to fetch city data", message |-> "Internal server error"]

citiesFailure(msg) ==
    [error |-> "Failed to fetch city data",
     message |-> IF msg # "" THEN msg ELSE "Internal server error"]

\* The list the handler builds from the reply to its first upstream call.
citiesFirst(v, results, term) ==
    CASE v \in Scored     -> scoredPipeline(results, citiesTerm(v, term))
      [] v = "part_000"   -> weightedPipeline(results, term)
      [] v = "part_001"   -> sheetPipeline(results, citiesTerm(v, term))
      [] v = "part_003"   -> capitalPipeline(results, term)
      [] v = "part_004"   -> confidencePipeline(results, term)

\* History, keyed by the lowercased term.
Remember(h, term, payload, t) == (toLowerCase(term) :> [body |-> payload, at |-> t]) @@ h

\* The first 200 answer for a term is kept until a later answer comes after
\* the time to live of the variant's cache has passed.
RememberFirst(h, term, payload, t) ==
    IF toLowerCase(term) \in DOMAIN h /\ t < h[toLowerCase(term)].at + stdTTL(variant)
    THEN h
    ELSE Remember(h, term, payload, t)

\* Validation, the cache lookup, and on a miss the upstream call.
CitiesStart(r, term) ==
    /\ creq[r].pc = "idle"
    /\ LET k   == citiesCacheKey(variant, term)
           new == [Idle EXCEPT !.term = term]
       IN  IF ~citiesTermOk(variant, term)
           THEN /\ creq' = [creq EXCEPT ![r] =
                       [new EXCEPT !.pc = "done", !.status = 400,
                                   !.body = citiesBadRequest(variant)]]
                /\ UNCHANGED <<cache, firstAnswer>>
           ELSE IF cacheHas(cache, k, now)
           THEN /\ creq' = [creq EXCEPT ![r] =
                       [new EXCEPT !.pc = "done", !.status = 200, !.body = cache[k].v]]
                /\ firstAnswer' = RememberFirst(firstAnswer, term, cache[k].v, now)
                /\ UNCHANGED cache
           ELSE /\ creq' = [creq EXCEPT ![r] = [new EXCEPT !.pc = "first", !.calls = 1]]
                /\ cache' = cacheAfterGet(cache, k, now)
                /\ UNCHANGED firstAnswer
    /\ UNCHANGED <<scoreVars, pureVars, rankVars, weatherVars, timelineVars, variant, zone, now, ticks, lastStored>>

\* cache.set(cacheKey, cities); res.json(cities)
CitiesAnswer(r, cities) ==
    /\ creq' = [creq EXCEPT ![r].pc = "done", ![r].status = 200, ![r].body = cities,
                            ![r].sets = @ + 1]
    /\ cache' = cacheSet(cache, citiesCacheKey(variant, creq[r].term), cities,
                         stdTTL(variant), now)
    /\ lastStored' = Remember(lastStored, creq[r].term, cities, now)
    /\ firstAnswer' = RememberFirst(firstAnswer, creq[r].term, cities, now)

\* The first upstream call resolves.
CitiesReply(r, results) ==
    /\ creq[r].pc = "first"
    /\ LET cities == citiesFirst(variant, results, creq[r].term)
       IN  IF variant = "part_001" /\ Len(results) = 0
           THEN \* rows.length <= 1: res.json([]) without cache.set
                /\ creq' = [creq EXCEPT ![r].pc = "done", ![r].status = 200,
                                        ![r].body = <<>>]
                /\ firstAnswer' = RememberFirst(firstAnswer, creq[r].term, <<>>, now)
                /\ UNCHANGED <<cache, lastStored>>
           ELSE IF variant \in Fallback /\ Len(cities) = 0
           THEN /\ creq' = [creq EXCEPT ![r].pc = "broad", ![r].calls = @ + 1]
                /\ UNCHANGED <<cache, lastStored, firstAnswer>>
           ELSE CitiesAnswer(r, cities)
    /\ UNCHANGED <<scoreVars, pureVars, rankVars, weatherVars, timelineVars, variant, zone, now, ticks>>

\* The broader search of part_000 and part_004 resolves.
CitiesBroadReply(r, results) ==
    /\ creq[r].pc = "broad"
    /\ CitiesAnswer(r, broadPipeline(results))
    /\ UNCHANGED <<scoreVars, pureVars, rankVars, weatherVars, timelineVars, variant, zone, now, ticks>>

\* An upstream call rejects (an error status, a timeout): the catch block.
CitiesFail(r, msg) ==
    /\ creq[r].pc \in {"first", "broad"}
    /\ creq' = [creq EXCEPT ![r].pc = "done", ![r].status = 500,
                            ![r].body = citiesFailure(msg), ![r].failMsg = msg]
    /\ UNCHANGED <<scoreVars, pureVars, rankVars, weatherVars, timelineVars, procVars, lastStored, firstAnswer>>

\* The response has been sent; the request is over.
CitiesEnd(r) ==
    /\ creq[r].pc = "done"
    /\ creq' = [creq EXCEPT ![r] = Idle]
    /\ UNCHANGED <<scoreVars, pureVars, rankVars, weatherVars, timelineVars, procVars, lastStored, firstAnswer>>

\* Time passes, by half the time to live of the variant's cache.
Tick ==
    /\ ticks < MaxTicks
    /\ ticks' = ticks + 1
    /\ now' = now + stdTTL(variant) \div 2
    /\ UNCHANGED <<scoreVars, pureVars, rankVars, weatherVars, timelineVars, variant, zone, cache, cityVars>>

Init ==
    /\ ScoreIdle
    /\ variant \in Variants /\ zone = 0
    /\ now = 0 /\ ticks = 0 /\ cache = Empty
    /\ CitiesIdle
    /\ RankIdle
    /\ WeatherIdle
    /\ TimelineIdle

Next ==
    \/ \E r \in Requests, term \in Terms : CitiesStart(r, term)
    \/ \E r \in Requests, results \in GeoReplies : CitiesReply(r, results)
    \/ \E r \in Requests, results \in GeoReplies : CitiesBroadReply(r, results)
    \/ \E r \in Requests, msg \in UpstreamErrors : CitiesFail(r, msg)
    \/ \E r \in Requests : CitiesEnd(r)
    \/ Tick

Spec == Init /\ [][Next]_vars

(***************************************************************************)
(* One run of a /cities pipeline on every list of up to MaxListLen         *)
(* results of the pool.                                                    *)
(***************************************************************************)
MaxListLen == 3

Pab == <<"P", "a", "b">>
ab  == <<"a", "b">>

RankPool ==
    { City(Pa, <<"A">>, FR, 1),                      \* an exact match
      City(pa, <<"a">>, toLowerCase(FR), 2),         \* the same place, other case
      City(Pab, <<"A">>, FR, 3),                     \* a prefix match
      City(Pab \o ab, <<"A">>, FR, 8),               \* a longer prefix match
      City(ab, <<"A">>, FR, 4),                      \* no match
      [GeoBase EXCEPT !.town = Pa, !.country = usa, !.lat = 5, !.lng = 5],
      [GeoBase EXCEPT !.suburb = Pa, !.lat = 6, !.lng = 6],
      [GeoBase EXCEPT !.city = Pa, !.lat = 7, !.lng = 7],    \* no country
      City(Pa, <<"b", "-", "A">>, FR, 9),            \* a hyphen in the state
      City(Pa \o <<"-", "b">>, <<"A">>, FR, 10) }    \* a hyphen in the city

RECURSIVE ListsUpTo(_, _)
ListsUpTo(pool, n) ==
    IF n = 0 THEN {<<>>}
    ELSE LET shorter == ListsUpTo(pool, n - 1)
         IN  shorter \cup {Append(l, x) : l \in {y \in shorter : Len(y) = n - 1}, x \in pool}

RankInit ==
    /\ ScoreIdle
    /\ variant \in Variants /\ zone = 0
    /\ now = 0 /\ ticks = 0 /\ cache = Empty
    /\ CitiesIdle
    /\ WeatherIdle
    /\ TimelineIdle
    /\ rankTerm \in {pa, Pa}
    /\ rankResults \in ListsUpTo(RankPool, MaxListLen)
    /\ rankOut = NotRanked

Rank ==
    /\ ~rankOut.ranked
    /\ rankOut' = [ranked |-> TRUE, list |-> citiesFirst(variant, rankResults, rankTerm)]
    /\ UNCHANGED <<scoreVars, pureVars, procVars, cityVars, rankTerm, rankResults, weatherVars, timelineVars>>

RankNext == Rank

SpecRank == RankInit /\ [][RankNext]_vars

(***************************************************************************)
(* The comparator of part_003 on three results of the geocoder that differ *)
(* in what it reads: the name, the capital mark, the confidence and the    *)
(* population (0: not known).                                              *)
(***************************************************************************)
OrderPool ==
    { [City(nm, <<"A">>, FR, 1) EXCEPT !.confidence = cf, !.capital = cap,
                                       !.population = pop] :
          nm \in {Pa, Pab}, cf \in {1, 3, 5}, cap \in BOOLEAN, pop \in {0, 10, 20} }

OrderInit ==
    /\ ScoreIdle
    /\ variant = "part_003" /\ zone = 0
    /\ now = 0 /\ ticks = 0 /\ cache = Empty
    /\ CitiesIdle
    /\ WeatherIdle
    /\ TimelineIdle
    /\ rankTerm = pa
    /\ rankResults \in [1..3 -> OrderPool]
    /\ rankOut = NotRanked

SpecOrder == OrderInit /\ [][RankNext]_vars

(***************************************************************************)
(* Dates.  A date is a year, counted from the year the clock starts in,    *)
(* and the place of its month and day in the year, in seconds from the     *)
(* month and day the clock starts at; the clock starts at 0.               *)
(***************************************************************************)
Day == 24 * 3600

YearSeconds == 365 * Day

\* new Date(text) for the date texts of the requests; every other text is
\* an Invalid Date.
NewDate(text) ==
    CASE text = "last-year"     -> [valid |-> TRUE, year |-> 0 - 1, at |-> 0 - 10 * Day]
      [] text = "in-15-minutes" -> [valid |-> TRUE, year |-> 0, at |-> 900]
      [] text = "in-10-days"    -> [valid |-> TRUE, year |-> 0, at |-> 10 * Day]
      [] text = "new-year"      -> [valid |-> TRUE, year |-> 0, at |-> 0 - YearSeconds \div 2]
      [] OTHER                  -> [valid |-> FALSE, year |-> 0, at |-> 0]

getTime(d) == d.year * YearSeconds + d.at

\* The time zones a process runs in: UTC, and eight hours behind it.
Zones == {0, 0 - 8 * 3600}

\* getFullYear() of the Date of time t: the year of the local time; the
\* clock starts in the middle of year 0.
getFullYear(t) == (t + zone + YearSeconds \div 2) \div YearSeconds

\* date > today and date < today; both are false of an Invalid Date.
After(d, t) == d.valid /\ getTime(d) > t

Before(d, t) == d.valid /\ getTime(d) < t

(***************************************************************************)
(* Numbers in query strings.                                               *)
(***************************************************************************)
Numeric == {"48.85", "2.35"}

\* isNaN(text): Number("") is 0.
isNaN(text) == text \notin Numeric /\ text # ""

NoValue == 0 - 1     \* undefined, where a number is expected

\* parseFloat(text), in hundredths.
parseFloat(text) ==
    CASE text = "48.85" -> 4885
      [] text = "2.35"  -> 235
      [] OTHER          -> NoValue

(***************************************************************************)
(* What the weather upstream answers.                                      *)
(***************************************************************************)
Daily(code, tmax, tmin, rain) ==
    [weathercode |-> code, temperature_2m_max |-> tmax,
     temperature_2m_min |-> tmin, precipitation_sum |-> rain]

Hot       == [timezone |-> "GMT", daily |-> Daily(<<0>>, <<38>>, <<34>>, <<0>>)]
Showers   == [timezone |-> "GMT", daily |-> Daily(<<80>>, <<12>>, <<6>>, <<20>>)]
EmptyDays == [timezone |-> "GMT", daily |-> Daily(<<>>, <<>>, <<>>, <<>>)]
NoDaily   == [timezone |-> "GMT"]

WeatherData == {Showers, EmptyDays, NoDaily}

WeatherErrors ==
    { [status |-> 404, reason |-> "", message |-> "Request failed with status code 404"],
      [status |-> 400, reason |-> "Invalid date", message |-> "Request failed with status code 400"],
      [status |-> 0, reason |-> "", message |-> "timeout of 5000ms exceeded"] }

\* array[0]
First(s) == IF Len(s) > 0 THEN s[1] ELSE NoValue

\* weatherData.daily?.temperature_2m_max?.length
usable(data) == "daily" \in DOMAIN data /\ Len(data.daily.temperature_2m_max) > 0

(***************************************************************************)
(* The horoscope.                                                          *)
(***************************************************************************)
\* The outcomes of Math.random() that a horoscope uses: two places in a
\* list of four traits.
Draws == {<<1, 2>>, <<4, 3>>}

HoroscopeVariants == {"server_1", "server_2", "part_002"}

\* server.js, first program: the category that lists the code.
getWeatherType(weatherCode) ==
    CASE weatherCode \in {0, 1}                   -> "clearSky"
      [] weatherCode \in {2}                      -> "partlyCloudy"
      [] weatherCode \in {3}                      -> "cloudy"
      [] weatherCode \in {45, 48}                 -> "foggy"
      [] weatherCode \in {51, 53, 55}             -> "drizzle"
      [] weatherCode \in {61, 63, 65, 80, 81, 82} -> "rain"
      [] weatherCode \in {71, 73, 75, 77, 85, 86} -> "snow"
      [] weatherCode \in {95, 96, 99}             -> "thunderstorm"
      [] OTHER                                    -> "clearSky"

\* Object.keys(weatherTraits).map(Number)
weatherCodes(v) ==
    IF v = "server_2"
    THEN <<0, 1, 2, 3, 45, 48, 51, 53, 55, 61, 63, 65, 71, 73, 75, 95, 96, 99>>
    ELSE <<0, 1, 2, 3, 45, 51, 61, 71, 95>>

RECURSIVE reduceClosest(_, _, _, _)
reduceClosest(codes, i, prev, weathercode) ==
    IF i > Len(codes) THEN prev
    ELSE reduceClosest(codes, i + 1,
                       IF Abs(codes[i] - weathercode) < Abs(prev - weathercode)
                       THEN codes[i] ELSE prev,
                       weathercode)

closestWeatherCode(v, weathercode) ==
    reduceClosest(weatherCodes(v), 2, weatherCodes(v)[1], weathercode)

\* The band of the highest temperature of the day.
bandOfMaxTemp(v, maxTemp, minTemp) ==
    LET limits == IF v = "server_2" THEN <<35, 30, 25, 20, 15, 10, 5>> ELSE <<30, 20, 10>>
        above  == {i \in 1..Len(limits) : maxTemp > limits[i]}
    IN  IF above = {} THEN NoValue
        ELSE limits[CHOOSE i \in above : \A j \in above : i <= j]

\* The band of the average temperature, named by its lower limit; the
\* lowest band is named by NoValue.  avgTemp > t iff maxTemp + minTemp > 2t.
getTemperatureTraits(v, maxTemp, minTemp) ==
    LET limits == IF v = "server_2" THEN <<35, 30, 25, 20, 15, 10, 5>> ELSE <<30, 20, 10>>
        above  == {i \in 1..Len(limits) : maxTemp + minTemp > 2 * limits[i]}
    IN  IF above = {} THEN NoValue
        ELSE limits[CHOOSE i \in above : \A j \in above : i <= j]

\* The two lines that precipitation adds, named by the limit it exceeds.
precipitationTraits(v, precipitation) ==
    LET tier == IF v = "server_2" /\ precipitation > 30 THEN 30
                ELSE IF v = "server_2" /\ precipitation > 15 THEN 15
                ELSE 0
    IN  IF precipitation > 0
        THEN << [of |-> "precipitation", key |-> tier, index |-> 1],
                [of |-> "precipitation", key |-> tier, index |-> 2] >>
        ELSE <<>>

\* A mood is named by the table entry it belongs to, a trait by its entry
\* and its place in the entry's list.  madeFor is history: the request
\* whose handling generated the horoscope.
generateHoroscope(v, weatherData, draw, id) ==
    LET weathercode == First(weatherData.daily.weathercode)
    IN  IF v = "server_1"
        THEN LET weatherType == getWeatherType(weathercode)
             IN  [weather_type |-> weatherType,
                  weather_summary |-> weatherType,
                  personality_traits |->
                      << [of |-> weatherType, index |-> draw[1]],
                         [of |-> weatherType, index |-> draw[2]] >>,
                  madeFor |-> id]
        ELSE LET closest == closestWeatherCode(v, weathercode)
                 band    == getTemperatureTraits(v,
                                First(weatherData.daily.temperature_2m_max),
                                First(weatherData.daily.temperature_2m_min))
             IN  [weather_summary |-> closest,
                  temperature_insight |-> band,
                  personality_traits |->
                      << [of |-> "weather", key |-> closest, index |-> draw[1]],
                         [of |-> "temperature", key |-> band, index |-> draw[2]] >>
                      \o precipitationTraits(v, First(weatherData.daily.precipitation_sum)),
                  madeFor |-> id]

\* server.js, first program: the codes that the entry of a category lists.
codesOf(type) ==
    CASE type = "clearSky"     -> {0, 1}
      [] type = "partlyCloudy" -> {2}
      [] type = "cloudy"       -> {3}
      [] type = "foggy"        -> {45, 48}
      [] type = "drizzle"      -> {51, 53, 55}
      [] type = "rain"         -> {61, 63, 65, 80, 81, 82}
      [] type = "snow"         -> {71, 73, 75, 77, 85, 86}
      [] type = "thunderstorm" -> {95, 96, 99}

WeatherTypes ==
    {"clearSky", "partlyCloudy", "cloudy", "foggy", "drizzle", "rain", "snow",
     "thunderstorm"}

(***************************************************************************)
(* The country normalizer on one name.                                     *)
(***************************************************************************)
\* The table of the variant's normalizeCountryName.
aliases(v) == IF v = "server_2" THEN countryMappingsSecond ELSE countryMappings

CountryNames ==
    StringsUpTo(MaxStrLen)
    \cup DOMAIN countryMappingsSecond
    \cup {unitedStates, unitedKingdom, FR, <<"U", "S", "A">>, <<"U", "k">>}
    \cup DOMAIN Inherited
    \cup {<<"C", "o", "n", "s", "t", "r", "u", "c", "t", "o", "r">>}

TypeErrorRaised == [raised |-> TRUE]

CountryInit ==
    /\ cityName = <<>> /\ searchTerm = <<>> /\ quality = NotComputed
    /\ forecast = Empty /\ horoscope = NotMade
    /\ variant \in Scored /\ zone = 0
    /\ now = 0 /\ ticks = 0 /\ cache = Empty
    /\ CitiesIdle
    /\ RankIdle
    /\ WeatherIdle
    /\ TimelineIdle
    /\ countryName \in CountryNames
    /\ normalized = NotMade

\* normalizeCountryName(country), and normalizeCountryName of what it
\* returned: country.toLowerCase() raises when country is no string.
Normalize ==
    /\ ~normalized.made
    /\ LET key    == toLowerCase(countryName)
           value  == normalizeWith(aliases(variant), countryName)
           string == key \in DOMAIN aliases(variant) \/ key \notin DOMAIN Inherited
       IN  normalized' =
               [made |-> TRUE, string |-> string, value |-> value,
                again |-> IF string
                          THEN [raised |-> FALSE,
                                value |-> normalizeWith(aliases(variant), value)]
                          ELSE TypeErrorRaised]
    /\ UNCHANGED <<scoreVars, forecast, horoscope, countryName, procVars, cityVars,
                   rankVars, weatherVars, timelineVars>>

CountryNext == Normalize

SpecCountry == CountryInit /\ [][CountryNext]_vars

(***************************************************************************)
(* The trait mapper on one answer of the weather upstream.                 *)
(***************************************************************************)
MaxCode == 100

\* maxTemp and minTemp; their means are 34, 36, 30, 9 and 5.
Temperatures == {<<38, 30>>, <<38, 34>>, <<31, 29>>, <<12, 6>>, <<10, 0>>}

TraitsInit ==
    /\ cityName = <<>> /\ searchTerm = <<>> /\ quality = NotComputed
    /\ countryName = <<>> /\ normalized = NotMade
    /\ variant \in HoroscopeVariants /\ zone = 0
    /\ now = 0 /\ ticks = 0 /\ cache = Empty
    /\ CitiesIdle
    /\ RankIdle
    /\ WeatherIdle
    /\ TimelineIdle
    /\ \E code \in 0..MaxCode, temp \in Temperatures, rain \in {0, 20, 40} :
           forecast = [timezone |-> "GMT",
                       daily |-> Daily(<<code>>, <<temp[1]>>, <<temp[2]>>, <<rain>>)]
    /\ horoscope = NotMade

Horoscope(draw) ==
    /\ ~horoscope.made
    /\ horoscope' = [made |-> TRUE] @@ generateHoroscope(variant, forecast, draw, "r1")
    /\ UNCHANGED <<scoreVars, forecast, countryName, normalized, procVars, cityVars,
                   rankVars, weatherVars, timelineVars>>

TraitsNext == \E draw \in Draws : Horoscope(draw)

SpecTraits == TraitsInit /\ [][TraitsNext]_vars

(***************************************************************************)
(* GET /weather.                                                           *)
(***************************************************************************)
Validating == {"server_2", "part_002"}    \* the variants that test the date

Accepted == [error |-> "", message |-> ""]

\* The 400 response of the handler's validation, or Accepted.
weatherRejection(v, q) ==
    IF q.latitude = "" \/ q.longitude = "" \/ q.date = ""
    THEN [error |-> "Missing parameters",
          message |-> "Latitude, longitude, and date are required"]
    ELSE IF v # "server_1" /\ (isNaN(q.latitude) \/ isNaN(q.longitude))
    THEN [error |-> "Invalid coordinates",
          message |-> "Latitude and longitude must be valid numbers"]
    ELSE IF v \in Validating /\ ~NewDate(q.date).valid
    THEN [error |-> "Invalid date", message |-> "Please provide a valid date"]
    ELSE Accepted

weatherCacheKey(v, q) ==
    IF v = "part_001"
    THEN <<"weather_", "{", q.latitude, q.longitude, q.date, "}">>
    ELSE <<"weather_", q.latitude, "_", q.longitude, "_", q.date>>

\* The upstream that the request for the requested date goes to, chosen at
\* time t.
weatherEndpoint(v, q, t) ==
    IF v = "server_1" THEN "forecast"
    ELSE IF v \in Validating
    THEN IF Before(NewDate(q.date), t) THEN "archive" ELSE "forecast"
    ELSE IF After(NewDate(q.date), t) THEN "forecast" ELSE "archive"

weatherMeta(v, q, t) ==
    IF v \in Validating
    THEN [date |-> NewDate(q.date),
          data_type |-> IF Before(NewDate(q.date), t) THEN "historical" ELSE "forecast",
          location |-> [latitude |-> parseFloat(q.latitude),
                        longitude |-> parseFloat(q.longitude)]]
    ELSE [requested_date |-> q.date,
          location |-> [latitude |-> q.latitude, longitude |-> q.longitude],
          data_source |-> IF After(NewDate(q.date), t) THEN "forecast" ELSE "historical"]

\* The time to live of the entry that the handler stores.
weatherTTL(v, q, t) ==
    IF v = "server_2"
    THEN IF Before(NewDate(q.date), t) THEN 86400 ELSE 3600
    ELSE stdTTL(v)

\* The payload without the horoscope.
weatherPayloadBare(v, q, t, weatherData, draw, id) ==
    [meta |-> weatherMeta(v, q, t)] @@ weatherData

\* What the handlers other than the first program of server.js store and
\* send: the upstream data with meta and, where there is one, a horoscope.
weatherPayload(v, q, t, weatherData, draw, id) ==
    IF v \in Validating
    THEN [meta |-> weatherMeta(v, q, t),
          horoscope |-> generateHoroscope(v, weatherData, draw, id)] @@ weatherData
    ELSE [meta |-> weatherMeta(v, q, t)] @@ weatherData

weatherNoData ==
    [error |-> "No data available",
     message |-> "No weather data available for this date and location"]

\* The catch block.
weatherFailure(v, err) ==
    IF v # "server_1" /\ err.status = 404
    THEN [status |-> 404,
          body |-> [error |-> "Not found",
                    message |-> "Weather data not available for this date/location"]]
    ELSE [status |-> 500,
          body |-> [error |-> "Weather API error",
                    message |-> IF v = "server_1" THEN err.message
                                ELSE IF err.reason # "" THEN err.reason
                                ELSE IF err.message # "" THEN err.message
                                ELSE "Failed to fetch weather data"]]

\* One upstream request, as the history of a handler records it.
Call(endpoint, date, t) == [endpoint |-> endpoint, date |-> date, at |-> t]

(* The first program of server.js. *)

\* The years that fetchHistoricalWeather, called at time t, looks up: from
\* the year of the date to the current year, without the years in which
\* the month and day are still to come.
historicalYears(q, t) ==
    LET d     == NewDate(q.date)
        startYear == getFullYear(getTime(d))
        count == IF d.valid THEN getFullYear(t) - startYear + 1 ELSE 0
        years == [i \in 1..count |-> startYear + i - 1]
        past(year) == ~(year * YearSeconds + d.at > t)
    IN  SelectSeq(years, past)

historicalRecord(year, data) ==
    [year |-> year,
     weathercode   |-> First(data.daily.weathercode),
     temp_max      |-> First(data.daily.temperature_2m_max),
     temp_min      |-> First(data.daily.temperature_2m_min),
     precipitation |-> First(data.daily.precipitation_sum)]

\* The digest is modelled by what it is computed from.
generateShareableId(q, weatherData) ==
    [date |-> q.date,
     location |-> [latitude |-> q.latitude, longitude |-> q.longitude],
     weather |-> weatherData]

TypeError ==
    [status |-> 0, reason |-> "",
     message |-> "Cannot read properties of undefined (reading 'weathercode')"]

HistoryData == {Showers, NoDaily}

Latitude == "48.85"

Longitude == "2.35"

WeatherQuery(latitude, longitude, date) ==
    [latitude |-> latitude, longitude |-> longitude, date |-> date]

WeatherQueries ==
    { WeatherQuery(Latitude, Longitude, d) :
          d \in {"last-year", "in-10-days", "not-a-date", ""} }
    \cup { WeatherQuery("", Longitude, "last-year"),
           WeatherQuery(Latitude, "abc", "last-year") }

\* What the first program of server.js does once the historical timeline
\* is complete: the new state of the request, and what it stores if it
\* stores anything.
firstProgramResult(r, req, historicalData, draw) ==
    IF "daily" \notin DOMAIN req.current
    THEN \* generateHoroscope throws; the catch block answers
         [stores |-> FALSE,
          req |-> [req EXCEPT !.pc = "done", !.pending = <<>>,
                              !.historical = historicalData,
                              !.status = weatherFailure("server_1", TypeError).status,
                              !.body = weatherFailure("server_1", TypeError).body]]
    ELSE LET responseData ==
                 [current |-> req.current,
                  historical |-> historicalData,
                  horoscope |-> generateHoroscope("server_1", req.current, draw, r)]
             shareableId == generateShareableId(req.q, req.current)
             sent == [shareableId |-> shareableId] @@ responseData
         IN  [stores |-> TRUE,
              shareableId |-> shareableId,
              shared |-> responseData,
              req |-> [req EXCEPT !.pc = "done", !.pending = <<>>,
                                  !.historical = historicalData,
                                  !.sets = @ + 2, !.status = 200, !.body = sent]]

\* The state after the first program of server.js has got the answer for
\* one more year, or for the requested date when there are no years.
FirstProgramContinues(r, req, rest, historicalData, draw) ==
    IF rest # <<>>
    THEN /\ wreq' = [wreq EXCEPT ![r] =
                [req EXCEPT !.pc = "historical", !.pending = rest,
                            !.historical = historicalData,
                            !.calls = Append(@, Call("archive",
                                [NewDate(req.q.date) EXCEPT !.year = Head(rest)], now))]]
         /\ UNCHANGED <<cache, resultsCache, issued>>
    ELSE LET done == firstProgramResult(r, req, historicalData, draw)
         IN  /\ wreq' = [wreq EXCEPT ![r] = done.req]
             /\ IF done.stores
                THEN /\ resultsCache' = cacheSet(resultsCache, done.shareableId,
                                                 done.shared, 30 * Day, now)
                     /\ issued' = (done.shareableId :>
                                       [payload |-> done.shared, at |-> now]) @@ issued
                     /\ cache' = cacheSet(cache, weatherCacheKey(variant, req.q),
                                          done.req.body, stdTTL(variant), now)
                ELSE UNCHANGED <<cache, resultsCache, issued>>

\* The requests are named in the order in which they arrive.
Arrived(r) == wreq[r].pc # "idle"

NextToArrive(r) == ~Arrived(r) /\ (r = "r2" => Arrived("r1"))

\* Validation, the cache lookup, and on a miss the choice of the upstream
\* and the request to it.
WeatherStart(r, q) ==
    /\ NextToArrive(r)
    /\ LET k   == weatherCacheKey(variant, q)
           new == [WeatherIdleRequest EXCEPT !.q = q, !.started = now]
           no  == weatherRejection(variant, q)
       IN  IF no.error # ""
           THEN /\ wreq' = [wreq EXCEPT ![r] =
                       [new EXCEPT !.pc = "done", !.status = 400, !.body = no]]
                /\ UNCHANGED cache
           ELSE IF cacheHas(cache, k, now)
           THEN /\ wreq' = [wreq EXCEPT ![r] =
                       [new EXCEPT !.pc = "done", !.reads = 1, !.status = 200,
                                   !.body = cache[k].v]]
                /\ UNCHANGED cache
           ELSE /\ wreq' = [wreq EXCEPT ![r] =
                       [new EXCEPT !.pc = "upstream", !.reads = 1,
                                   !.calls = <<Call(weatherEndpoint(variant, q, now),
                                                    NewDate(q.date), now)>>]]
                /\ cache' = cacheAfterGet(cache, k, now)
    /\ UNCHANGED <<scoreVars, pureVars, rankVars, cityVars, timelineVars, variant, zone, now, ticks,
                   resultsCache, issued, resultData>>

\* The upstream answers the request for the requested date with data.
WeatherReply(r, weatherData, draw) ==
    /\ wreq[r].pc = "upstream"
    /\ LET req == [wreq[r] EXCEPT !.got = IF usable(weatherData) THEN "data" ELSE "unusable",
                                 !.current = weatherData]
       IN  IF variant = "server_1"
           THEN FirstProgramContinues(r, req, historicalYears(req.q, now), <<>>, draw)
           ELSE IF ~usable(weatherData)
           THEN /\ wreq' = [wreq EXCEPT ![r] =
                       [req EXCEPT !.pc = "done", !.status = 404, !.body = weatherNoData]]
                /\ UNCHANGED <<cache, resultsCache, issued>>
           ELSE LET sent == weatherPayload(variant, req.q, req.started, weatherData,
                                           draw, r)
                IN  /\ wreq' = [wreq EXCEPT ![r] =
                           [req EXCEPT !.pc = "done", !.sets = @ + 1, !.status = 200,
                                       !.body = sent]]
                    /\ cache' = cacheSet(cache, weatherCacheKey(variant, req.q), sent,
                                         weatherTTL(variant, req.q, req.started), now)
                    /\ UNCHANGED <<resultsCache, issued>>
    /\ UNCHANGED <<scoreVars, pureVars, rankVars, cityVars, timelineVars, variant, zone, now, ticks, resultData>>

\* The upstream request for the requested date fails: the catch block.
WeatherFail(r, err) ==
    /\ wreq[r].pc = "upstream"
    /\ wreq' = [wreq EXCEPT ![r].pc = "done",
                            ![r].got = IF err.status = 404 THEN "404" ELSE "error",
                            ![r].status = weatherFailure(variant, err).status,
                            ![r].body = weatherFailure(variant, err).body]
    /\ UNCHANGED <<scoreVars, pureVars, rankVars, cityVars, timelineVars, procVars, resultsCache, issued,
                   resultData>>

\* fetchHistoricalWeather gets the archive's answer for one year.
WeatherHistoricalReply(r, data, draw) ==
    /\ wreq[r].pc = "historical"
    /\ LET req == wreq[r]
           results == IF "daily" \in DOMAIN data
                      THEN Append(req.historical, historicalRecord(Head(req.pending), data))
                      ELSE req.historical
       IN  FirstProgramContinues(r, req, Tail(req.pending), results, draw)
    /\ UNCHANGED <<scoreVars, pureVars, rankVars, cityVars, timelineVars, variant, zone, now, ticks, resultData>>

\* The archive request for one year fails: the year is left out.
WeatherHistoricalFail(r, draw) ==
    /\ wreq[r].pc = "historical"
    /\ FirstProgramContinues(r, wreq[r], Tail(wreq[r].pending), wreq[r].historical, draw)
    /\ UNCHANGED <<scoreVars, pureVars, rankVars, cityVars, timelineVars, variant, zone, now, ticks, resultData>>

\* The response has been sent; the request is over.
WeatherEnd(r) ==
    /\ wreq[r].pc = "done"
    /\ wreq' = [wreq EXCEPT ![r] = [WeatherIdleRequest EXCEPT !.pc = "over"]]
    /\ UNCHANGED <<scoreVars, pureVars, rankVars, cityVars, timelineVars, procVars, resultsCache, issued,
                   resultData>>

MaxHalfDays == 1

\* Half a day passes.
LongTick ==
    /\ ticks < MaxHalfDays
    /\ ticks' = ticks + 1
    /\ now' = now + Day \div 2
    /\ UNCHANGED <<scoreVars, pureVars, rankVars, weatherVars, timelineVars, variant, zone, cache, cityVars>>

WeatherNext ==
    \/ \E r \in Requests, q \in WeatherQueries : WeatherStart(r, q)
    \/ \E r \in Requests, d \in WeatherData, draw \in Draws : WeatherReply(r, d, draw)
    \/ \E r \in Requests, err \in WeatherErrors : WeatherFail(r, err)
    \/ \E r \in Requests, d \in HistoryData, draw \in Draws : WeatherHistoricalReply(r, d, draw)
    \/ \E r \in Requests, draw \in Draws : WeatherHistoricalFail(r, draw)
    \/ \E r \in Requests : WeatherEnd(r)
    \/ LongTick

SpecWeather == Init /\ [][WeatherNext]_vars

(***************************************************************************)
(* fetchHistoricalWeather in the first program of server.js, in a process  *)
(* of either time zone.  Every archive request is answered or fails in     *)
(* the end: the code puts no timeout on it and waits for it.               *)
(***************************************************************************)
HistoricalInit ==
    /\ ScoreIdle
    /\ variant = "server_1"
    /\ zone \in Zones
    /\ now = 0 /\ ticks = 0 /\ cache = Empty
    /\ CitiesIdle
    /\ RankIdle
    /\ WeatherIdle
    /\ TimelineIdle

HistoricalQueries ==
    { WeatherQuery(Latitude, Longitude, d) : d \in {"last-year", "new-year", "in-10-days"} }

OneDraw == {<<1, 2>>}

HistoricalAnswer(r) ==
    \/ \E d \in HistoryData, draw \in OneDraw : WeatherHistoricalReply(r, d, draw)
    \/ \E draw \in OneDraw : WeatherHistoricalFail(r, draw)

HistoricalNext ==
    \/ \E r \in Requests, q \in HistoricalQueries : WeatherStart(r, q)
    \/ \E r \in Requests, d \in {Showers, NoDaily}, draw \in OneDraw : WeatherReply(r, d, draw)
    \/ \E r \in Requests : HistoricalAnswer(r)
    \/ \E r \in Requests : WeatherEnd(r)

SpecHistorical ==
    /\ HistoricalInit
    /\ [][HistoricalNext]_vars
    /\ \A r \in Requests : WF_vars(HistoricalAnswer(r))

(***************************************************************************)
(* GET /result/:id (server.js, first program).                             *)
(***************************************************************************)
resultNotFound == [error |-> "Result not found"]

\* An id that no /weather request produces: /weather rejects an empty date.
NeverIssued == generateShareableId(NoQuery, NoDaily)

\* resultsCache.get(req.params.id), and the response.  known, age and
\* stored are history: what had been stored under the id, and how long ago.
ResultGet(id) ==
    /\ variant = "server_1"
    /\ LET hit   == cacheHas(resultsCache, id, now)
           known == id \in DOMAIN issued
       IN  resultData' =
               [pc |-> "done", id |-> id,
                status |-> IF hit THEN 200 ELSE 404,
                body |-> IF hit THEN resultsCache[id].v ELSE resultNotFound,
                known |-> known,
                age |-> IF known THEN now - issued[id].at ELSE 0,
                stored |-> IF known THEN issued[id].payload ELSE Empty]
    /\ resultsCache' = cacheAfterGet(resultsCache, id, now)
    /\ UNCHANGED <<scoreVars, pureVars, rankVars, cityVars, timelineVars, procVars, wreq, issued>>

MaxThreeWeeks == 2

\* Three weeks pass.
ThreeWeeksTick ==
    /\ ticks < MaxThreeWeeks
    /\ ticks' = ticks + 1
    /\ now' = now + 21 * Day
    /\ UNCHANGED <<scoreVars, pureVars, rankVars, weatherVars, timelineVars, variant, zone, cache, cityVars>>

ResultInit ==
    /\ ScoreIdle
    /\ variant = "server_1" /\ zone = 0
    /\ now = 0 /\ ticks = 0 /\ cache = Empty
    /\ CitiesIdle
    /\ RankIdle
    /\ WeatherIdle
    /\ TimelineIdle

\* The requests for shared results follow /weather requests for one place
\* and one date; the ids differ by the upstream's weather.
ResultQueries == { WeatherQuery(Latitude, Longitude, "in-10-days") }

ResultNext ==
    \/ \E r \in Requests, q \in ResultQueries : WeatherStart(r, q)
    \/ \E r \in Requests, d \in WeatherData, draw \in Draws : WeatherReply(r, d, draw)
    \/ \E r \in Requests, err \in WeatherErrors : WeatherFail(r, err)
    \/ \E r \in Requests, d \in HistoryData, draw \in Draws : WeatherHistoricalReply(r, d, draw)
    \/ \E r \in Requests, draw \in Draws : WeatherHistoricalFail(r, draw)
    \/ \E r \in Requests : WeatherEnd(r)
    \/ \E id \in DOMAIN issued \cup {NeverIssued} : ResultGet(id)
    \/ ThreeWeeksTick

SpecResult == ResultInit /\ [][ResultNext]_vars

(***************************************************************************)
(* GET /weather/timeline (server.js, second program).                      *)
(***************************************************************************)
batchSize == 5

\* parseInt(text) for the year texts of the requests; NoValue is NaN.
parseInt(text) ==
    CASE text = "2015" -> 2015
      [] text = "2020" -> 2020
      [] OTHER         -> NoValue

TimelineQuery(month, startYear, endYear) ==
    [latitude |-> Latitude, longitude |-> Longitude, month |-> month, day |-> "14",
     startYear |-> startYear, endYear |-> endYear]

TimelineQueries ==
    { TimelineQuery("07", "2015", "2020"),     \* six dates, two batches
      TimelineQuery("07", "2020", "2020"),     \* one date
      TimelineQuery("07", "2020", "2015"),     \* no date
      TimelineQuery("", "2015", "2020") }      \* no month

timelineMissing(q) ==
    q.latitude = "" \/ q.longitude = "" \/ q.month = "" \/ q.day = ""
    \/ q.startYear = "" \/ q.endYear = ""

timelineBadRequest ==
    [error |-> "Missing parameters", message |-> "All timeline parameters are required"]

timelineCacheKey(q) ==
    <<"timeline_", q.latitude, "_", q.longitude, "_", q.month, "_", q.day, "_",
      q.startYear, "_", q.endYear>>

\* The dates `${year}-${month}-${day}` from startYear to endYear; a
\* comparison with NaN is false.
timelineDates(q) ==
    LET first == parseInt(q.startYear)
        last  == parseInt(q.endYear)
        count == IF first = NoValue \/ last = NoValue THEN 0 ELSE last - first + 1
    IN  [i \in 1..count |-> [year |-> first + i - 1, month |-> q.month, day |-> q.day]]

timelineBatches(dates) ==
    [j \in 1..((Len(dates) + batchSize - 1) \div batchSize) |->
        SubSeq(dates, (j - 1) * batchSize + 1, Min(j * batchSize, Len(dates)))]

\* What the lookup of one date resolves to: the upstream's data, or the
\* error that the lookup's own catch turns into a value.
Answered(data) == [failed |-> FALSE, data |-> data]

Failed == [failed |-> TRUE, data |-> NoDaily]

\* The answers to the dates of one batch, by place in the batch.
BatchAnswers ==
    { [i \in 1..batchSize |-> Answered(Hot)],
      [i \in 1..batchSize |-> IF i = 2 THEN Failed
                               ELSE IF i = 3 THEN Answered(EmptyDays)
                               ELSE Answered(Showers)],
      [i \in 1..batchSize |-> Failed] }

\* parseInt(date.split('-')[0]) of the text `${year}-${month}-${day}`: the
\* text before the first hyphen is the year's digits, and it is empty when
\* the year is negative; parseInt of the empty text is NaN.
yearOf(date) == IF date.year < 0 THEN NoValue ELSE date.year

\* The entry with the code under the name the upstream gives it.
timelineEntryAsUpstream(date, data) ==
    [year |-> yearOf(date),
     maxTemp |-> First(data.daily.temperature_2m_max),
     minTemp |-> First(data.daily.temperature_2m_min),
     weathercode |-> First(data.daily.weathercode),
     precipitation |-> First(data.daily.precipitation_sum)]

timelineEntry(date, data) ==
    [year |-> yearOf(date),
     maxTemp |-> First(data.daily.temperature_2m_max),
     minTemp |-> First(data.daily.temperature_2m_min),
     weatherCode |-> First(data.daily.weathercode),
     precipitation |-> First(data.daily.precipitation_sum)]

\* History: how the lookup of each date of a batch ended.
batchLookups(batch, results) ==
    [i \in 1..Len(batch) |->
        [year |-> batch[i].year,
         outcome |-> IF results[i].failed THEN "failed"
                     ELSE IF usable(results[i].data) THEN "data" ELSE "empty",
         data |-> results[i].data]]

\* A forEach that gives up the whole batch when one lookup has failed.
batchEntriesUnlessFailed(batch, results) ==
    IF \E i \in 1..Len(batch) : results[i].failed THEN <<>>
    ELSE [i \in 1..Len(batch) |-> timelineEntry(batch[i], results[i].data)]

\* batchResults.forEach: the entries that one batch pushes.
batchEntries(batch, results) ==
    LET kept(i) == ~results[i].failed /\ usable(results[i].data)
        places  == SelectSeq([i \in 1..Len(batch) |-> i], kept)
    IN  [k \in 1..Len(places) |-> timelineEntry(batch[places[k]], results[places[k]].data)]

\* timelineData.sort(...); cache.set(cacheKey, timelineData, 86400);
\* res.json(timelineData)
TimelineAnswer(r, req, timelineData) ==
    LET sorted == sort(timelineData, "byYear", <<>>)
    IN  /\ treq' = [treq EXCEPT ![r] =
                [req EXCEPT !.pc = "done", !.inFlight = {}, !.timelineData = sorted,
                            !.status = 200, !.json = "array", !.body = sorted]]
        /\ cache' = cacheSet(cache, timelineCacheKey(req.q), sorted, 86400, now)

TimelineArrived(r) == treq[r].pc # "idle"

\* Validation, the cache lookup, and on a miss the lookups of all dates of
\* all batches.
TimelineStart(r, q) ==
    /\ ~TimelineArrived(r) /\ (r = "r2" => TimelineArrived("r1"))
    /\ LET k   == timelineCacheKey(q)
           new == [TimelineIdleRequest EXCEPT !.q = q]
           batches == timelineBatches(timelineDates(q))
       IN  IF timelineMissing(q)
           THEN /\ treq' = [treq EXCEPT ![r] =
                       [new EXCEPT !.pc = "done", !.status = 400, !.json = "object",
                                   !.body = timelineBadRequest]]
                /\ UNCHANGED cache
           ELSE IF cacheHas(cache, k, now)
           THEN /\ treq' = [treq EXCEPT ![r] =
                       [new EXCEPT !.pc = "done", !.status = 200, !.json = "array",
                                   !.body = cache[k].v]]
                /\ UNCHANGED cache
           ELSE IF Len(batches) = 0
           THEN TimelineAnswer(r, new, <<>>)
           ELSE /\ treq' = [treq EXCEPT ![r] =
                       [new EXCEPT !.pc = "waiting",
                                   !.calls = Len(timelineDates(q)),
                                   !.inFlight = DOMAIN batches]]
                /\ cache' = cacheAfterGet(cache, k, now)
    /\ UNCHANGED <<scoreVars, pureVars, rankVars, cityVars, weatherVars, variant, zone, now, ticks>>

\* All lookups of one batch have resolved.
TimelineBatchReply(r, b, results) ==
    /\ treq[r].pc = "waiting"
    /\ b \in treq[r].inFlight
    /\ LET batch == timelineBatches(timelineDates(treq[r].q))[b]
           req   == [treq[r] EXCEPT !.lookups = @ \o batchLookups(batch, results)]
           data  == req.timelineData \o batchEntries(batch, results)
       IN  IF req.inFlight = {b}
           THEN TimelineAnswer(r, req, data)
           ELSE /\ treq' = [treq EXCEPT ![r] =
                       [req EXCEPT !.inFlight = @ \ {b}, !.timelineData = data]]
                /\ UNCHANGED cache
    /\ UNCHANGED <<scoreVars, pureVars, rankVars, cityVars, weatherVars, variant, zone, now, ticks>>

\* The response has been sent; the request is over.
TimelineEnd(r) ==
    /\ treq[r].pc = "done"
    /\ treq' = [treq EXCEPT ![r] = [TimelineIdleRequest EXCEPT !.pc = "over"]]
    /\ UNCHANGED <<scoreVars, pureVars, rankVars, cityVars, weatherVars, procVars>>

TimelineInit ==
    /\ ScoreIdle
    /\ variant = "server_2" /\ zone = 0
    /\ now = 0 /\ ticks = 0 /\ cache = Empty
    /\ CitiesIdle
    /\ RankIdle
    /\ WeatherIdle
    /\ TimelineIdle

TimelineNext ==
    \/ \E r \in Requests, q \in TimelineQueries : TimelineStart(r, q)
    \/ \E r \in Requests : \E b \in treq[r].inFlight, results \in BatchAnswers :
           TimelineBatchReply(r, b, results)
    \/ \E r \in Requests : TimelineEnd(r)
    \/ LongTick

SpecTimeline == TimelineInit /\ [][TimelineNext]_vars

(***************************************************************************)
(* The cache over more than a day: requests of one kind, /cities, /weather *)
(* or /weather/timeline, and a clock that passes the times to live.        *)
(***************************************************************************)
MaxCacheTicks == 2

\* A little more than half an hour, or a day, passes.
CacheTick(seconds) ==
    /\ ticks < MaxCacheTicks
    /\ ticks' = ticks + 1
    /\ now' = now + seconds
    /\ UNCHANGED <<scoreVars, pureVars, rankVars, weatherVars, timelineVars, variant, zone, cache,
                   cityVars>>

NoCities   == \A r \in Requests : creq[r].pc = "idle"
NoWeather  == \A r \in Requests : wreq[r].pc = "idle"
NoTimeline == \A r \in Requests : treq[r].pc = "idle"

CacheQueries ==
    { WeatherQuery(Latitude, Longitude, d) : d \in {"last-year", "in-10-days"} }

CacheNext ==
    \/ \E r \in Requests, term \in {pa, Pa} :
           NoWeather /\ NoTimeline /\ CitiesStart(r, term)
    \/ \E r \in Requests, results \in {Twins} : CitiesReply(r, results)
    \/ \E r \in Requests, q \in CacheQueries :
           NoCities /\ NoTimeline /\ WeatherStart(r, q)
    \/ \E r \in Requests, d \in {Showers}, draw \in {<<1, 2>>} : WeatherReply(r, d, draw)
    \/ \E r \in Requests, d \in {Showers}, draw \in {<<1, 2>>} :
           WeatherHistoricalReply(r, d, draw)
    \/ \E r \in Requests, q \in {TimelineQuery("07", "2020", "2020")} :
           variant = "server_2" /\ NoCities /\ NoWeather /\ TimelineStart(r, q)
    \/ \E r \in Requests : \E b \in treq[r].inFlight, results \in BatchAnswers :
           TimelineBatchReply(r, b, results)
    \/ \E seconds \in {2000, Day} : CacheTick(seconds)

SpecCache == Init /\ [][CacheNext]_vars

(***************************************************************************)
(* C1: once a /cities request for a term has completed with 200, every     *)
(* later /cities request with the same lowercased term that arrives before *)
(* the time to live has elapsed returns exactly the payload of that first  *)
(* response and issues no upstream call.                                   *)
(***************************************************************************)
Arrives(r) == creq[r].pc = "idle" /\ creq'[r].pc # "idle"

Fresh(h, term) ==
    /\ toLowerCase(term) \in DOMAIN h
    /\ now < h[toLowerCase(term)].at + stdTTL(variant)

ServedFrom(h, r) ==
    /\ creq'[r].pc = "done"
    /\ creq'[r].status = 200
    /\ creq'[r].calls = 0
    /\ creq'[r].body = h[toLowerCase(creq'[r].term)].body

\* C1 as stated.
C1_RepeatsFirstResponse ==
    [][\A r \in Requests :
          Arrives(r) /\ Fresh(firstAnswer, creq'[r].term) => ServedFrom(firstAnswer, r)]_vars

\* C1 as amended: a request that arrives while the payload last stored for
\* its lowercased term is younger than the time to live is answered 200
\* with exactly that payload, without an upstream call.
C1_RepeatsLastStored ==
    [][\A r \in Requests :
          Arrives(r) /\ Fresh(lastStored, creq'[r].term) => ServedFrom(lastStored, r)]_vars

\* A request answered from the cache at a later time than the payload was
\* stored, under a term that differs in case from the one that stored it.
C1_Witness ==
    \E r \in Requests :
        /\ creq[r].pc = "done" /\ creq[r].status = 200 /\ creq[r].calls = 0
        /\ creq[r].term = Pa
        /\ pa \in DOMAIN lastStored
        /\ lastStored[pa].at < now
        /\ creq[r].body = lastStored[pa].body
        /\ Len(creq[r].body) > 0

(***************************************************************************)
(* C2: the scored pipeline (server.js, part_002) outputs at most one entry *)
(* per lowercase (city, state, country), and the entry it outputs for a    *)
(* key is the first candidate with that key in the sorted order.           *)
(***************************************************************************)
Triple(c) == <<toLowerCase(c.city), toLowerCase(c.state), toLowerCase(c.country)>>

\* C2 as stated.
C2_KeepsFirstOfKey ==
    (rankOut.ranked /\ variant \in Scored) =>
        LET out    == rankOut.list
            sorted == scoredSorted(rankResults, rankTerm)
        IN  /\ \A i, j \in 1..Len(out) : i # j => Triple(out[i]) # Triple(out[j])
            /\ \A i \in 1..Len(out) :
                   \E k \in 1..Len(sorted) :
                       /\ Triple(sorted[k]) = Triple(out[i])
                       /\ \A m \in 1..(k - 1) : Triple(sorted[m]) # Triple(out[i])
                       /\ out[i] = formatCity(sorted[k])

(***************************************************************************)
(* C3: every 200 response of every /cities handler is a list of at most    *)
(* 10 entries, the broader search of part_000 and part_004 included.       *)
(***************************************************************************)
C3_AtMostTen ==
    \A r \in Requests :
        (creq[r].pc = "done" /\ creq[r].status = 200) => Len(creq[r].body) <= PageSize

(***************************************************************************)
(* C4: calculateMatchQuality returns the value of the first rule that      *)
(* applies, in the order equal (100), whole-term prefix (95), first word   *)
(* prefix of a one-word term (90), every search word a prefix of the       *)
(* candidate word at the same position (85), substring (70), else 0; the   *)
(* result is an integer in 0..100.                                         *)
(***************************************************************************)
RuleValue(city, term) ==
    LET c  == toLowerCase(city)
        t  == toLowerCase(term)
        tw == split(t)
        cw == split(c)
        everyWordPrefix ==
            \A i \in 1..Len(tw) : i <= Len(cw) /\ startsWith(cw[i], tw[i])
    IN  CASE c = t -> 100
          [] c # t /\ startsWith(c, t) -> 95
          [] c # t /\ ~startsWith(c, t) /\ Len(tw) = 1 /\ startsWith(cw[1], tw[1]) -> 90
          [] c # t /\ ~startsWith(c, t) /\ Len(tw) > 1 /\ everyWordPrefix -> 85
          [] OTHER -> IF includes(c, t) THEN 70 ELSE 0

\* C4 as stated.
C4_FirstApplicableRule ==
    quality # NotComputed =>
        /\ quality = RuleValue(cityName, searchTerm)
        /\ quality \in 0..100

(***************************************************************************)
(* C5: every upstream request that a /weather handler makes for the        *)
(* requested date goes to the forecast endpoint when that date is after    *)
(* the time of the request and to the archive endpoint when it is before.  *)
(***************************************************************************)
C5_RoutesByDate ==
    \A r \in Requests :
        \A i \in 1..Len(wreq[r].calls) :
            LET call == wreq[r].calls[i]
                date == NewDate(wreq[r].q.date)
            IN  call.date = date =>
                    /\ After(date, call.at) => call.endpoint = "forecast"
                    /\ Before(date, call.at) => call.endpoint = "archive"

(***************************************************************************)
(* C6: a /weather request that lacks latitude, longitude or date, or whose *)
(* latitude or longitude is not a number, or whose date is not a valid     *)
(* date, is answered 400 with an error and a message, and reads no cache,  *)
(* writes no cache and calls no upstream.                                  *)
(***************************************************************************)
Malformed(q) ==
    \/ q.latitude = "" \/ q.longitude = "" \/ q.date = ""
    \/ isNaN(q.latitude) \/ isNaN(q.longitude)
    \/ ~NewDate(q.date).valid

\* C6 as stated, of every request that has arrived.
C6_RejectsMalformed ==
    \A r \in Requests :
        (wreq[r].pc \notin {"idle", "over"} /\ Malformed(wreq[r].q)) =>
            /\ wreq[r].pc = "done"
            /\ wreq[r].status = 400
            /\ DOMAIN wreq[r].body = {"error", "message"}
            /\ wreq[r].reads = 0 /\ wreq[r].sets = 0 /\ wreq[r].calls = <<>>

(***************************************************************************)
(* C7: when the upstream answers the request for the requested date        *)
(* without a usable daily series, or with HTTP 404, the /weather handler   *)
(* responds 404 and stores nothing in any cache.                           *)
(***************************************************************************)
C7_NotFound ==
    \A r \in Requests :
        (wreq[r].pc = "done" /\ wreq[r].got \in {"unusable", "404"}) =>
            wreq[r].status = 404 /\ wreq[r].sets = 0

(***************************************************************************)
(* C8: when the upstream call of a /cities request fails, the handler      *)
(* answers 500 with the upstream error message, the request has called     *)
(* the upstream exactly once, and it has written nothing to the cache.     *)
(***************************************************************************)
FailedRequest(r) == creq[r].pc = "done" /\ creq[r].failMsg # ""

AnswersUpstreamError(r) ==
    /\ creq[r].status = 500
    /\ creq[r].body = [error |-> "Failed to fetch city data", message |-> creq[r].failMsg]
    /\ creq[r].sets = 0

\* C8 as stated.
C8_FailsAfterOneCall ==
    \A r \in Requests : FailedRequest(r) => AnswersUpstreamError(r) /\ creq[r].calls = 1

\* C8 as amended: the failed call is the request's last upstream call; it
\* is its only one, or its second one when it is the broader search of
\* part_000 and part_004.
C8_FailsWithoutRetry ==
    \A r \in Requests :
        FailedRequest(r) =>
            /\ AnswersUpstreamError(r)
            /\ creq[r].calls \in {1, 2}
            /\ creq[r].calls = 2 => variant \in Fallback

C8_Witness ==
    \E r \in Requests :
        /\ FailedRequest(r) /\ creq[r].status = 500 /\ creq[r].calls = 1
        /\ cache # Empty

(***************************************************************************)
(* C9: every 200 /weather response carries a horoscope that was generated  *)
(* while handling that same request.                                       *)
(***************************************************************************)
Sent200(r) == wreq[r].pc = "done" /\ wreq[r].status = 200

\* C9 as stated.
C9_HoroscopePerRequest ==
    \A r \in Requests :
        Sent200(r) =>
            /\ "horoscope" \in DOMAIN wreq[r].body
            /\ wreq[r].body.horoscope.madeFor = r

\* C9 as amended: in server.js and part_002 every 200 response carries a
\* horoscope; a response computed after a cache miss carries the one
\* generated for its own request, and a response served from the cache
\* carries the one generated for the earlier request whose payload the
\* cache holds.  The other variants send no horoscope.
C9_HoroscopeWithPayload ==
    \A r \in Requests :
        Sent200(r) =>
            IF variant \in HoroscopeVariants
            THEN /\ "horoscope" \in DOMAIN wreq[r].body
                 /\ wreq[r].calls # <<>> => wreq[r].body.horoscope.madeFor = r
                 /\ wreq[r].calls = <<>> =>
                        /\ r = "r2"
                        /\ wreq[r].body.horoscope.madeFor = "r1"
                        /\ wreq[r].sets = 0
            ELSE "horoscope" \notin DOMAIN wreq[r].body

\* The second request is served, half a day after the first, the payload
\* and the horoscope that the first one stored.
C9_Witness ==
    /\ variant = "server_2" /\ now > 0
    /\ Sent200("r2") /\ wreq["r2"].calls = <<>>
    /\ wreq["r2"].started > 0
    /\ wreq["r2"].body.horoscope.madeFor = "r1"
    /\ weatherCacheKey(variant, wreq["r2"].q) \in DOMAIN cache
    /\ cache[weatherCacheKey(variant, wreq["r2"].q)].t - 86400 = 0

(***************************************************************************)
(* C10: a 200 response of GET /weather/timeline is an object with the      *)
(* three fields timeline, analysis and prediction, both when computed and  *)
(* when served from the cache.                                             *)
(***************************************************************************)
TimelineSent200(r) == treq[r].pc = "done" /\ treq[r].status = 200

\* C10 as stated.
C10_ThreeFields ==
    \A r \in Requests :
        TimelineSent200(r) =>
            /\ treq[r].json = "object"
            /\ DOMAIN treq[r].body = {"timeline", "analysis", "prediction"}

\* C10 as amended: a 200 response is an array, computed or served from the
\* cache, of entries with the fields year, maxTemp, minTemp, weatherCode
\* and precipitation; it is no object with a timeline, an analysis and a
\* prediction.
C10_ArrayOfYears ==
    \A r \in Requests :
        TimelineSent200(r) =>
            LET list == treq[r].body
            IN  /\ treq[r].json = "array"
                /\ \A i \in 1..Len(list) :
                       DOMAIN list[i] =
                           {"year", "maxTemp", "minTemp", "weatherCode", "precipitation"}

\* A request served from the cache a list that holds years of both batches.
C10_Witness ==
    \E r \in Requests :
        /\ TimelineSent200(r) /\ treq[r].calls = 0
        /\ Len(treq[r].body) > batchSize

(***************************************************************************)
(* C11: in /weather/timeline the failure of the lookup of one date never   *)
(* fails the request.                                                      *)
(***************************************************************************)
TimelineComputed(r) == treq[r].pc = "done" /\ treq[r].lookups # <<>>

\* C11: a request that has looked dates up answers 200; the year of a date
\* whose lookup failed is not in the result, and every date whose lookup
\* gave a non-empty daily series is in it, with the values of that series.
C11_FailedDateOmitted ==
    \A r \in Requests :
        TimelineComputed(r) =>
            LET list == treq[r].body
            IN  /\ treq[r].status = 200
                /\ \A i \in 1..Len(treq[r].lookups) :
                       LET lookup == treq[r].lookups[i]
                       IN  /\ lookup.outcome = "failed" =>
                                  \A k \in 1..Len(list) : list[k].year # lookup.year
                           /\ lookup.outcome = "data" =>
                                  \E k \in 1..Len(list) :
                                      /\ list[k].year = lookup.year
                                      /\ list[k].maxTemp =
                                             lookup.data.daily.temperature_2m_max[1]

\* A request of two batches in which lookups failed and lookups gave data.
C11_Witness ==
    \E r \in Requests :
        /\ TimelineComputed(r)
        /\ Len(treq[r].lookups) > batchSize
        /\ \E i \in 1..Len(treq[r].lookups) : treq[r].lookups[i].outcome = "failed"
        /\ \E i \in 1..Len(treq[r].lookups) : treq[r].lookups[i].outcome = "data"
        /\ treq[r].body # <<>>

(***************************************************************************)
(* C12: GET /result/:id answers 200 with the payload stored under the id   *)
(* while fewer than 30 days have passed since it was stored, and 404 for   *)
(* an id never issued or expired; the id is a function of date, location   *)
(* and upstream weather only.                                              *)
(***************************************************************************)
ResultAnswered == resultData.pc = "done"

\* C12: a response of /result/:id is 200 with the stored payload when the
\* id was stored fewer than 30 days before, 404 when the id was never
\* stored or was stored more than 30 days before; and the id that a
\* /weather response carries is made of the request's date and location
\* and the upstream's weather, whatever the horoscope and the history.
C12_SharedResult ==
    /\ ResultAnswered =>
           /\ (resultData.known /\ resultData.age < 30 * Day) =>
                  resultData.status = 200 /\ resultData.body = resultData.stored
           /\ (~resultData.known \/ resultData.age > 30 * Day) =>
                  resultData.status = 404 /\ resultData.body = resultNotFound
    /\ \A r \in Requests :
           (wreq[r].pc = "done" /\ wreq[r].status = 200 /\ wreq[r].calls # <<>>) =>
               /\ wreq[r].body.shareableId.date = wreq[r].q.date
               /\ wreq[r].body.shareableId.location =
                      [latitude |-> wreq[r].q.latitude, longitude |-> wreq[r].q.longitude]
               /\ wreq[r].body.shareableId.weather = wreq[r].current
               /\ wreq[r].body.shareableId \in DOMAIN issued
               /\ issued[wreq[r].body.shareableId].payload.current = wreq[r].current

\* A stored result is answered three weeks after it was stored.
C12_Witness ==
    /\ ResultAnswered /\ resultData.known
    /\ resultData.age = 21 * Day
    /\ resultData.status = 200
    /\ "horoscope" \in DOMAIN resultData.body

\* A stored result is no longer answered six weeks after it was stored.
C12_WitnessExpired ==
    /\ ResultAnswered /\ resultData.known
    /\ resultData.age = 42 * Day
    /\ resultData.status = 404

(***************************************************************************)
(* C13: the trait mapper selects the entry that lists the weather code,    *)
(* and for a code that no entry lists the entry whose key is numerically   *)
(* closest to the code.                                                    *)
(***************************************************************************)
\* The codes that the variant's table lists.
Listed(v) ==
    IF v = "server_1" THEN UNION {codesOf(type) : type \in WeatherTypes}
    ELSE {weatherCodes(v)[i] : i \in 1..Len(weatherCodes(v))}

\* The horoscope was made from the entry that lists the code k.
MadeFromEntryOf(v, h, k) ==
    IF v = "server_1" THEN k \in codesOf(h.weather_type)
    ELSE h.weather_summary = k

\* C13: the horoscope is made from the entry that lists the code, and for
\* a code that is not listed from the entry of a listed code than which
\* no listed code is closer.
C13_ListedOrClosest ==
    horoscope.made =>
        LET code == forecast.daily.weathercode[1]
        IN  IF code \in Listed(variant)
            THEN MadeFromEntryOf(variant, horoscope, code)
            ELSE \E k \in Listed(variant) :
                     /\ MadeFromEntryOf(variant, horoscope, k)
                     /\ \A j \in Listed(variant) : Abs(k - code) <= Abs(j - code)



(***************************************************************************)
(* C14: for weatherCode = 0, maxTemp = 38 and minTemp = 30 the trait       *)
(* mapper selects the clear-sky entry and takes the temperature trait and  *)
(* mood from the ">35" band, or from the variant's highest band.           *)
(***************************************************************************)
ClearHotDay ==
    /\ horoscope.made
    /\ forecast.daily.weathercode = <<0>>
    /\ forecast.daily.temperature_2m_max = <<38>>
    /\ forecast.daily.temperature_2m_min = <<30>>

ClearSkySelected ==
    IF variant = "server_1" THEN horoscope.weather_type = "clearSky"
    ELSE horoscope.weather_summary = 0 /\ horoscope.personality_traits[1].key = 0

\* The temperature mood and the temperature trait are those of the band.
TemperatureFrom(band) ==
    /\ "temperature_insight" \in DOMAIN horoscope
    /\ horoscope.temperature_insight = band
    /\ horoscope.personality_traits[2].of = "temperature"
    /\ horoscope.personality_traits[2].key = band

\* C14 as stated.
C14_HighestBand ==
    ClearHotDay =>
        /\ ClearSkySelected
        /\ TemperatureFrom(35) \/ (variant = "part_002" /\ TemperatureFrom(30))

\* C14 as amended: the clear-sky entry is selected; the mean of 38 and 30
\* is 34, so the second program of server.js and part_002 take the
\* temperature trait and mood from the band over 30, which is the highest
\* band of part_002 only; the first program of server.js has no
\* temperature trait and no temperature mood.
C14_BandOfMean ==
    ClearHotDay =>
        /\ ClearSkySelected
        /\ IF variant = "server_1"
           THEN /\ "temperature_insight" \notin DOMAIN horoscope
                /\ \A i \in 1..Len(horoscope.personality_traits) :
                       horoscope.personality_traits[i].of = "clearSky"
           ELSE TemperatureFrom(30)

\* The second program of server.js has made the horoscope of the day.
C14_Witness == ClearHotDay /\ variant = "server_2" /\ TemperatureFrom(30)

(***************************************************************************)
(* C15: normalizeCountryName returns a string for every string and never   *)
(* raises: the canonical name for an alias, the input itself otherwise.    *)
(***************************************************************************)
\* C15: what normalizeCountryName returns is a string; it is the canonical
\* name when the lowercased input is a key of the variant's table, and
\* the input, in the case it was given in, for every other string.
C15_TotalOnStrings ==
    normalized.made =>
        /\ normalized.string
        /\ normalized.value =
               IF toLowerCase(countryName) \in DOMAIN aliases(variant)
               THEN aliases(variant)[toLowerCase(countryName)]
               ELSE countryName

(***************************************************************************)
(* C16: country normalization is idempotent, in both alias tables.         *)
(***************************************************************************)
\* C16: normalizing what normalizeCountryName returned raises nothing and
\* returns the same value.
C16_Idempotent ==
    normalized.made =>
        /\ ~normalized.again.raised
        /\ normalized.again.value = normalized.value

(***************************************************************************)
(* C17: in the scored /cities pipeline a candidate whose score against     *)
(* the search term is 0 never appears in the response.                     *)
(***************************************************************************)
RankedBy(vs) == rankOut.ranked /\ variant \in vs

\* C17: every entry that the scored pipeline puts out has a city whose
\* calculateMatchQuality against the term is over 0, whatever the list of
\* upstream results is.
C17_ZeroScoreExcluded ==
    RankedBy(Scored) =>
        \A i \in 1..Len(rankOut.list) :
            calculateMatchQuality(rankOut.list[i].city, rankTerm) > 0

\* The pipeline has put out a list from results of which one scores 0.
C17_Witness ==
    /\ RankedBy(Scored)
    /\ rankOut.list # <<>>
    /\ \E k \in 1..Len(rankResults) :
           /\ Truthy(scoredCandidate(rankResults[k], rankTerm).city)
           /\ scoredCandidate(rankResults[k], rankTerm).score = 0

(***************************************************************************)
(* C18: in every variant every entry of a /cities 200 response has a       *)
(* non-empty city and a non-empty country.                                 *)
(***************************************************************************)
\* C18: every entry that a /cities pipeline puts out has a non-empty city
\* and a non-empty country.
C18_RequiredFields ==
    rankOut.ranked =>
        \A i \in 1..Len(rankOut.list) :
            Truthy(rankOut.list[i].city) /\ Truthy(rankOut.list[i].country)

(***************************************************************************)
(* C19: among candidates of equal total score the one with the shorter     *)
(* name is placed earlier in the output.                                   *)
(***************************************************************************)
\* C19: of two entries that the scored pipeline puts out with the same
\* score, the earlier one has the name that is not the longer one.
C19_TieShorterFirst ==
    RankedBy(Scored) =>
        \A i, j \in 1..Len(rankOut.list) :
            (/\ i < j
             /\ calculateMatchQuality(rankOut.list[i].city, rankTerm) =
                    calculateMatchQuality(rankOut.list[j].city, rankTerm))
            => Len(rankOut.list[i].city) <= Len(rankOut.list[j].city)

(***************************************************************************)
(* C20: cache entries are removed only by expiry; a hit never extends an   *)
(* entry's lifetime; an entry is never served once its time to live has    *)
(* elapsed (1800 s by default; in the timeline variant 3600 s by default   *)
(* and 86400 s for historical weather and timelines); the first request    *)
(* for the key after expiry goes to the upstream again.                    *)
(***************************************************************************)
\* The time to live that the claim gives an entry stored at time t.
DeclaredTTL(v, k, t) ==
    IF v # "server_2" THEN 1800
    ELSE IF k[1] = "timeline_" THEN 86400
    ELSE IF k[1] = "weather_" /\ Before(NewDate(k[6]), t) THEN 86400
    ELSE 3600

Elapsed(entry, t) == entry.t < t

\* An entry leaves the cache only when its time to live has elapsed.
RemovedOnlyByExpiry ==
    \A k \in DOMAIN cache : k \notin DOMAIN cache' => Elapsed(cache[k], now)

\* An entry stays as it is, a hit included, unless a handler stores under
\* its key, and then the new entry lives for the declared time from now.
LifetimeNeverExtended ==
    \A k \in DOMAIN cache' :
        \/ k \in DOMAIN cache /\ cache'[k] = cache[k]
        \/ cache'[k].t = now + DeclaredTTL(variant, k, now)

\* A request that arrives is served from the cache only an entry whose
\* time to live has not elapsed, and when it finds an entry whose time
\* to live has elapsed it goes to the upstream.
ServedOnlyFresh(before, after, k, asking) ==
    (before.pc = "idle" /\ after.pc # "idle" /\ after.status # 400) =>
        /\ after.pc = "done" =>
               /\ k \in DOMAIN cache /\ ~Elapsed(cache[k], now)
               /\ after.status = 200 /\ after.body = cache[k].v
        /\ (k \in DOMAIN cache /\ Elapsed(cache[k], now)) => after.pc = asking

\* C20, of every step of every handler and of the clock.
C20_ExpiryOnly ==
    [][/\ RemovedOnlyByExpiry
       /\ LifetimeNeverExtended
       /\ \A r \in Requests :
              /\ ServedOnlyFresh(creq[r], creq'[r],
                                 citiesCacheKey(variant, creq'[r].term), "first")
              /\ ServedOnlyFresh(wreq[r], wreq'[r],
                                 weatherCacheKey(variant, wreq'[r].q), "upstream")
              /\ ServedOnlyFresh(treq[r], treq'[r],
                                 timelineCacheKey(treq'[r].q), "waiting")]_vars

\* The second program of server.js stored historical weather at time 0,
\* and the request for the same key a day and 2000 s later is at the
\* upstream.
C20_Witness ==
    /\ variant = "server_2"
    /\ wreq["r1"].pc = "done" /\ wreq["r1"].status = 200 /\ wreq["r1"].sets = 1
    /\ wreq["r1"].started = 0
    /\ wreq["r2"].q = wreq["r1"].q /\ wreq["r2"].q.date = "last-year"
    /\ wreq["r2"].started = Day + 2000
    /\ wreq["r2"].pc = "upstream"
    /\ weatherCacheKey(variant, wreq["r2"].q) \notin DOMAIN cache

(***************************************************************************)
(* C21: when requests for one cache key overlap and both write, the entry  *)
(* afterwards is the whole payload of the request that wrote last, and a   *)
(* request that reads the key sees no entry or the whole payload of one    *)
(* request.                                                                *)
(***************************************************************************)
Writes(r) == wreq[r].sets < wreq'[r].sets

\* The payload is made of what the one request r got and computed.
WholePayloadOf(r, req) ==
    IF variant = "server_1"
    THEN /\ req.body.current = req.current
         /\ req.body.historical = req.historical
         /\ req.body.horoscope.madeFor = r
         /\ req.body.shareableId = generateShareableId(req.q, req.current)
    ELSE \E draw \in Draws :
             req.body = weatherPayload(variant, req.q, req.started, req.current, draw, r)

\* C21: a /weather request that writes leaves its own whole payload under
\* its key, whatever another request wrote there before; an entry's value
\* changes in no other way; and a request answered from the cache is
\* answered the value of the entry.
C21_LastWriteWins ==
    [][/\ \A r \in Requests :
              Writes(r) =>
                  /\ WholePayloadOf(r, wreq'[r])
                  /\ cache'[weatherCacheKey(variant, wreq'[r].q)].v = wreq'[r].body
       /\ \A k \in DOMAIN cache' :
              \/ k \in DOMAIN cache /\ cache'[k].v = cache[k].v
              \/ \E r \in Requests :
                     Writes(r) /\ k = weatherCacheKey(variant, wreq'[r].q)
       /\ \A r \in Requests :
              (wreq[r].pc = "idle" /\ wreq'[r].pc = "done" /\ wreq'[r].status = 200) =>
                  wreq'[r].body = cache[weatherCacheKey(variant, wreq'[r].q)].v]_vars

\* Two overlapping requests for one key have both written, different
\* payloads, and the entry is the payload of the one that arrived first
\* and wrote last.
C21_Witness ==
    /\ \A r \in Requests :
           wreq[r].pc = "done" /\ wreq[r].sets >= 1 /\ wreq[r].calls # <<>>
    /\ wreq["r1"].q = wreq["r2"].q
    /\ wreq["r1"].body # wreq["r2"].body
    /\ cache[weatherCacheKey(variant, wreq["r1"].q)].v = wreq["r1"].body


(***************************************************************************)
(* C22: the list the scored /cities pipeline answers is in non-increasing  *)
(* score order; de-duplicating and cutting never put a lower-scored        *)
(* candidate before a higher-scored one.                                   *)
(***************************************************************************)
scoreOf(entry) == calculateMatchQuality(entry.city, rankTerm)

\* C22: in the list put out by the scored pipeline no entry has a lower
\* score than an entry after it.
C22_NonIncreasingScore ==
    RankedBy(Scored) =>
        \A i, j \in 1..Len(rankOut.list) :
            i < j => scoreOf(rankOut.list[i]) >= scoreOf(rankOut.list[j])

(***************************************************************************)
(* C23: fetchHistoricalWeather always terminates and returns records in    *)
(* strictly increasing year order, at most one per year, only for years    *)
(* from the requested date's year through the current year whose month and *)
(* day are not in the future; a year whose archive lookup fails is omitted *)
(* and never makes the /weather request fail.                              *)
(***************************************************************************)
\* The request has been answered after fetchHistoricalWeather looked up a year.
LookedUp(r) == wreq[r].pc = "done" /\ Len(wreq[r].calls) > 1

HistoricalAsStated(r) ==
    LET req  == wreq[r]
        list == req.historical
        d    == NewDate(req.q.date)
        asked == req.calls[2].at
    IN  /\ \A i, j \in 1..Len(list) : i < j => list[i].year < list[j].year
        /\ \A i \in 1..Len(list) :
               /\ d.year <= list[i].year
               /\ list[i].year <= getFullYear(asked)
               /\ list[i].year * YearSeconds + d.at <= asked
        /\ "daily" \in DOMAIN req.current =>
               req.status = 200 /\ req.body.historical = list

\* The lookup of a year fails: no record of the year is added, and the
\* request goes on as it does after a lookup that succeeds.
FailedYearOmitted(r) ==
    (\E draw \in Draws : WeatherHistoricalFail(r, draw)) =>
        /\ wreq'[r].historical = wreq[r].historical
        /\ \A i \in 1..Len(wreq'[r].historical) :
               wreq'[r].historical[i].year # Head(wreq[r].pending)
        /\ wreq'[r].pc \in {"historical", "done"}
        /\ (wreq'[r].pc = "done" /\ "daily" \in DOMAIN wreq[r].current) =>
               wreq'[r].status = 200

\* C23: a request that is looking up years is answered in the end, the
\* records it has then are as stated, and a year whose lookup fails is
\* left out without failing the request.
C23_HistoricalRecords ==
    /\ [](\A r \in Requests : LookedUp(r) => HistoricalAsStated(r))
    /\ [][\A r \in Requests : FailedYearOmitted(r)]_vars
    /\ \A r \in Requests : (wreq[r].pc = "historical") ~> (wreq[r].pc = "done")


(***************************************************************************)
(* C24: the list that /weather/timeline answers is strictly increasing in  *)
(* year, holds each year at most once and only years from startYear to     *)
(* endYear, whatever the order in which the batches complete.              *)
(***************************************************************************)
\* C24: in every list answered, computed or from the cache, the years
\* increase strictly and lie between the two years of the query.
C24_YearsInOrder ==
    \A r \in Requests :
        (treq[r].pc = "done" /\ treq[r].status = 200) =>
            LET list == treq[r].body
            IN  /\ \A i, j \in 1..Len(list) : i < j => list[i].year < list[j].year
                /\ \A i \in 1..Len(list) :
                       /\ parseInt(treq[r].q.startYear) <= list[i].year
                       /\ list[i].year <= parseInt(treq[r].q.endYear)

\* The second batch of a request completed before the first, and the list
\* computed holds years of both.
C24_Witness ==
    \E r \in Requests :
        /\ treq[r].pc = "done" /\ treq[r].status = 200
        /\ Len(treq[r].lookups) > batchSize
        /\ treq[r].lookups[1].year = 2020
        /\ \E i, j \in 1..Len(treq[r].body) :
               treq[r].body[i].year = 2015 /\ treq[r].body[j].year = 2020

(***************************************************************************)
(* C25: at most one upstream geocoder call is made per /cities cache key   *)
(* per time to live, also when requests for the same key overlap: a        *)
(* request that starts while an identical request is still waiting for     *)
(* the upstream does not issue its own upstream call.                      *)
(***************************************************************************)
WaitsForUpstream(r) == creq[r].pc \in {"first", "broad"}

\* C25 as stated: no two requests for one key wait for the upstream at the
\* same time.
C25_OneCallPerKey ==
    \A r1, r2 \in Requests :
        (r1 # r2 /\ WaitsForUpstream(r1) /\ WaitsForUpstream(r2)) =>
            citiesCacheKey(variant, creq[r1].term) # citiesCacheKey(variant, creq[r2].term)

\* The cache holds an entry of the key that has not expired.
HoldsFresh(k) == k \in DOMAIN cache /\ ~(cache[k].t # 0 /\ cache[k].t < now)

\* C25 as the code has it: a request that finds an entry of its key that
\* has not expired makes no upstream call and answers the entry; a request
\* with an acceptable term that finds none makes its own call, whatever
\* other requests are waiting for.
C25_CallUnlessCached ==
    [][\A r \in Requests, term \in Terms :
           (creq[r].pc = "idle" /\ creq'[r].pc # "idle" /\ creq'[r].term = term
            /\ citiesTermOk(variant, term)) =>
               IF HoldsFresh(citiesCacheKey(variant, term))
               THEN /\ creq'[r].calls = 0
                    /\ creq'[r].pc = "done"
                    /\ creq'[r].body = cache[citiesCacheKey(variant, term)].v
               ELSE creq'[r].calls = 1 /\ creq'[r].pc = "first"]_vars

\* Two requests for one key wait for the upstream at the same time, each
\* for its own call.
C25_Witness ==
    /\ \A r \in Requests : creq[r].pc = "first" /\ creq[r].calls = 1
    /\ citiesCacheKey(variant, creq["r1"].term) = citiesCacheKey(variant, creq["r2"].term)

\* A request has been answered from the cache without a call.
C25_WitnessCached ==
    \E r \in Requests :
        creq[r].pc = "done" /\ creq[r].status = 200 /\ creq[r].calls = 0


(***************************************************************************)
(* C26: once GET /result/:id has returned a payload for an id, every later *)
(* 200 response for the same id returns the same payload until the entry   *)
(* expires; a later /weather request for the same date, location and       *)
(* upstream weather does not change the stored result.                     *)
(***************************************************************************)
\* No entry of resultsCache has reached its time of expiry.
NothingExpired == now < 30 * Day

\* C26: while nothing has expired, a 200 response of /result/:id that
\* follows a 200 response for the same id has the same payload, and no
\* step changes the payload stored under an id.
C26_ResultStable ==
    [][NothingExpired =>
           /\ (/\ resultData.status = 200 /\ resultData'.status = 200
               /\ resultData'.id = resultData.id) =>
                  resultData'.body = resultData.body
           /\ \A id \in DOMAIN resultsCache :
                  id \in DOMAIN resultsCache' /\ resultsCache'[id].v = resultsCache[id].v]_vars


(***************************************************************************)
(* C27: during one /weather/timeline request at most 5 upstream archive    *)
(* requests, one batch, are in flight at any moment.                       *)
(***************************************************************************)
\* The lookups of a request that have been issued and have not resolved.
lookupsInFlight(r) ==
    LET batches == timelineBatches(timelineDates(treq[r].q))
    IN  { <<b, i>> : b \in treq[r].inFlight, i \in 1..batchSize } \cap
        { p \in (1..Len(batches)) \X (1..batchSize) : p[2] <= Len(batches[p[1]]) }

\* C27: no request has more lookups in flight than one batch holds.
C27_OneBatchInFlight ==
    \A r \in Requests : Cardinality(lookupsInFlight(r)) <= batchSize


(***************************************************************************)
(* C28: de-duplication in the /cities pipeline merges two candidates only  *)
(* if their lowercase city, lowercase state (absent as empty) and          *)
(* lowercase country are equal: the key joined by '-' is injective, so two *)
(* distinct places are never collapsed into one.                           *)
(***************************************************************************)
lowerTriple(c) == <<toLowerCase(c.city), toLowerCase(c.state), toLowerCase(c.country)>>

\* C28: every candidate that the scored pipeline keeps after its filter
\* has an entry with its lowercase city, state and country in the list
\* put out (the lists of the model are shorter than a page).
C28_MergesOnlyEqual ==
    RankedBy(Scored) =>
        \A k \in 1..Len(rankResults) :
            LET c == scoredCandidate(rankResults[k], rankTerm)
            IN  (~c.isNull /\ c.score > 0) =>
                    \E i \in 1..Len(rankOut.list) : lowerTriple(rankOut.list[i]) = lowerTriple(c)

(***************************************************************************)
(* C29: calculateMatchQuality never returns 90: whenever the term is one   *)
(* word and the candidate's first word starts with it, the candidate as a  *)
(* whole starts with the term and the rule of the whole prefix has         *)
(* returned 95 before; the scores reached are 0, 70, 85, 95 and 100.       *)
(***************************************************************************)
\* The term is one word and the first word of the candidate starts with it.
FirstWordRuleApplies ==
    /\ Len(split(toLowerCase(searchTerm))) = 1
    /\ startsWith(split(toLowerCase(cityName))[1], split(toLowerCase(searchTerm))[1])

\* C29: a computed score is one of 0, 70, 85, 95 and 100, and it is 95 or
\* 100 where the rule of the first word applies.
C29_Never90 ==
    quality # NotComputed =>
        /\ quality \in {0, 70, 85, 95, 100}
        /\ FirstWordRuleApplies => quality \in {95, 100}

\* The rule of the first word applies to a candidate of two words, and
\* the score is 95.
C29_Witness ==
    /\ quality = 95
    /\ FirstWordRuleApplies
    /\ searchTerm # <<>>
    /\ Len(split(toLowerCase(cityName))) = 2

(***************************************************************************)
(* C30: the comparator that orders the cities in part_003 is a consistent  *)
(* ordering: if it does not place b before a and does not place c before   *)
(* b, it does not place c before a; and cmp(a, b) and cmp(b, a) have       *)
(* opposite signs or are both 0.                                           *)
(***************************************************************************)
Sign(n) == IF n < 0 THEN 0 - 1 ELSE IF n > 0 THEN 1 ELSE 0

cmp(i, j) ==
    byExactCapitalConfidencePopulation(rankTerm, capitalCandidate(rankResults[i]),
                                       capitalCandidate(rankResults[j]))

\* C30: on the three candidates made of the geocoder's results the
\* comparator is transitive in "not before" and antisymmetric in sign.
C30_ConsistentOrdering ==
    RankedBy({"part_003"}) =>
        /\ (cmp(1, 2) <= 0 /\ cmp(2, 3) <= 0) => cmp(1, 3) <= 0
        /\ \A i, j \in 1..3 : Sign(cmp(i, j)) = 0 - Sign(cmp(j, i))

=============================================================================
